---------------------------- MODULE Spec2Model ----------------------------
(***************************************************************************)
(* Label-extraction pipeline of the pharmacy application                   *)
(* (utils/aiExtraction.js and lib/scanner/extract.ts).                     *)
(*                                                                         *)
(* Strings are sequences of one-character strings, so that the regular     *)
(* expressions of the source are modelled position by position.  A         *)
(* JavaScript value is a record [t, v]: its type tag and its characters    *)
(* (String(x) of a number is its decimal digits).                          *)
(***************************************************************************)
EXTENDS Integers, Sequences, FiniteSets, TLC

VARIABLES
    mode,       \* which entry point this behaviour exercises
    pc,         \* position of the running call
    arg,        \* argument of the pure function applied
    res,        \* its result
    res2,       \* the result of applying it to its own result
    apiKey,         \* OPENROUTER_API_KEY is set
    images,         \* imageBuffers.length
    visionOutcome,  \* how the vision attempt ended
    imageIndex,     \* images the OCR loop has gone through
    perImageTexts,  \* the OCR text of each image that was read
    cleanedOriginal,\* cleanupOCR(combinedText)
    hintLines,      \* buildHints(cleanedOriginal)._lines
    ai,             \* the text model's parsed answer, null when it has none
    rx,             \* extractWithRegex(cleanedOriginal)
    labelHits,      \* extractBatchAndMfgFromLines(hints._lines)
    merged,         \* mergeResults(...)
    votedBatch,     \* pickBestBatch(...)
    result,         \* what extractProductDataFromImages returned or threw
    wrapped,        \* what the wrapper of lib/scanner/extract.ts returned
    visionAnswer,   \* the vision model's parsed answer, null when it has none
    calls,          \* how many calls of each kind the run has made so far
    worker,         \* the OCR worker of the running ocrBuffer call
    extracted,      \* POST: what extractProductDataFromImages returned
    ocrResults,     \* POST: the entry pushed for each image
    response        \* POST: the response sent

pureVars == <<arg, res, res2>>
pipeVars == <<apiKey, images, visionOutcome, imageIndex, perImageTexts,
              cleanedOriginal, hintLines, ai, rx, labelHits, merged, votedBatch,
              result, wrapped, visionAnswer>>
scanVars == <<worker, extracted, ocrResults, response>>
vars == <<mode, pc, pureVars, pipeVars, calls, scanVars>>

(***************************************************************************)
(* Characters                                                              *)
(***************************************************************************)
Upper == <<"A","B","C","D","E","F","G","H","I","J","K","L","M",
           "N","O","P","Q","R","S","T","U","V","W","X","Y","Z">>
Lower == <<"a","b","c","d","e","f","g","h","i","j","k","l","m",
           "n","o","p","q","r","s","t","u","v","w","x","y","z">>
DigitSeq == <<"0","1","2","3","4","5","6","7","8","9">>

UpperSet == {Upper[i] : i \in 1..26}
LowerSet == {Lower[i] : i \in 1..26}
DigitSet == {DigitSeq[i] : i \in 1..10}
SpaceSet == {" ", "\n", "\t"}

IsUpper(c)  == c \in UpperSet
IsLetter(c) == c \in UpperSet \cup LowerSet
IsDigit(c)  == c \in DigitSet
IsSpace(c)  == c \in SpaceSet
\* \w of a JavaScript regular expression
IsWordCh(c) == IsLetter(c) \/ IsDigit(c) \/ c = "_"

\* String.prototype.toUpperCase, one character
UpperOf == [c \in LowerSet |-> Upper[CHOOSE i \in 1..26 : Lower[i] = c]]
LowerOf == [c \in UpperSet |-> Lower[CHOOSE i \in 1..26 : Upper[i] = c]]
UpCh(c) == IF c \in LowerSet THEN UpperOf[c] ELSE c
LowCh(c) == IF c \in UpperSet THEN LowerOf[c] ELSE c
toUpperCase(s) == [i \in 1..Len(s) |-> UpCh(s[i])]
toLowerCase(s) == [i \in 1..Len(s) |-> LowCh(s[i])]

\* the character at position i, "" outside the string
At(s, i) == IF i \in 1..Len(s) THEN s[i] ELSE ""
\* \b at the gap before position i
WordBoundary(s, i) == IsWordCh(At(s, i - 1)) # IsWordCh(At(s, i))
\* s.slice(i - 1, j): the characters at positions i..j that exist
Slice(s, i, j) ==
    LET lo == IF i < 1 THEN 1 ELSE i
        hi == IF j > Len(s) THEN Len(s) ELSE j
    IN  IF hi < lo THEN <<>> ELSE SubSeq(s, lo, hi)
\* every character of s[i..j] satisfies the class cls (a set of characters)
AllIn(s, i, j, cls) == \A k \in i..j : At(s, k) \in cls

RECURSIVE TrimLeft(_)
TrimLeft(s) == IF s # <<>> /\ IsSpace(Head(s)) THEN TrimLeft(Tail(s)) ELSE s
RECURSIVE TrimRight(_)
TrimRight(s) ==
    IF s # <<>> /\ IsSpace(s[Len(s)]) THEN TrimRight(SubSeq(s, 1, Len(s) - 1)) ELSE s
\* String.prototype.trim
trim(s) == TrimLeft(TrimRight(s))

\* s.replace(/[cls]+/g, rep): every maximal run of characters of cls becomes rep
RECURSIVE ReplaceRuns(_, _, _)
ReplaceRuns(s, cls, rep) ==
    IF s = <<>> THEN <<>>
    ELSE IF Head(s) \in cls
         THEN IF Len(s) > 1 /\ s[2] \in cls
              THEN ReplaceRuns(Tail(s), cls, rep)
              ELSE rep \o ReplaceRuns(Tail(s), cls, rep)
         ELSE <<Head(s)>> \o ReplaceRuns(Tail(s), cls, rep)

\* the concatenation of a list of lists
RECURSIVE Concat(_)
Concat(ss) == IF ss = <<>> THEN <<>> ELSE Head(ss) \o Concat(Tail(ss))

(***************************************************************************)
(* JavaScript values                                                       *)
(***************************************************************************)
Null      == [t |-> "null", v |-> <<>>]
Undefined == [t |-> "undefined", v |-> <<>>]
Str(s)    == [t |-> "str", v |-> s]
Num(d)    == [t |-> "num", v |-> d]
Arr(a)    == [t |-> "arr", v |-> a]
\* ToBoolean
Truthy(x) ==
    CASE x.t = "str" -> x.v # <<>>
      [] x.t = "num" -> x.v # <<"0">>
      [] x.t = "arr" -> TRUE
      [] OTHER -> FALSE
\* a || b
Or(a, b) == IF Truthy(a) THEN a ELSE b
\* a ?? b
Coalesce(a, b) == IF a.t \in {"null", "undefined"} THEN b ELSE a
\* v != null
NotNullish(x) == x.t \notin {"null", "undefined"}

\* xs.join(sep)
RECURSIVE Join(_, _)
Join(xs, sep) ==
    IF xs = <<>> THEN <<>>
    ELSE IF Len(xs) = 1 THEN xs[1]
    ELSE xs[1] \o sep \o Join(Tail(xs), sep)

\* String(x)
JsString(x) ==
    CASE x.t = "null" -> <<"n","u","l","l">>
      [] x.t = "undefined" -> <<"u","n","d","e","f","i","n","e","d">>
      [] x.t = "arr" -> Join([i \in 1..Len(x.v) |-> <<x.v[i]>>], <<",">>)
      [] OTHER -> x.v

(***************************************************************************)
(* Batch Code Normalizer                                                   *)
(***************************************************************************)
\* the characters a label can carry in this model
LabelChars == UpperSet \cup LowerSet \cup DigitSet \cup SpaceSet
                \cup {"-", ":", ".", "/", ",", "="}
\* the class [^A-Z0-9 ]
NotBatchChars == LabelChars \ (UpperSet \cup DigitSet \cup {" "})

\* s.replace(/(?<=\b[A-Z])d(?=[A-Z])/g, l)
SwapBetweenLetters(s, d, l) ==
    [i \in 1..Len(s) |->
        IF /\ s[i] = d
           /\ IsUpper(At(s, i - 1))
           /\ WordBoundary(s, i - 1)
           /\ IsUpper(At(s, i + 1))
        THEN l ELSE s[i]]

\* /\b([A-Z]*B)L(?=SL\b)/ matches at p with k letters before the B
LigatureAt(s, p, k) ==
    /\ WordBoundary(s, p)
    /\ AllIn(s, p, p + k - 1, UpperSet)
    /\ At(s, p + k) = "B"
    /\ At(s, p + k + 1) = "L"
    /\ At(s, p + k + 2) = "S"
    /\ At(s, p + k + 3) = "L"
    /\ WordBoundary(s, p + k + 4)

\* the least and the greatest element of a non-empty set of numbers
SetMin(S) == CHOOSE q \in S : \A r \in S : q <= r
SetMax(S) == CHOOSE q \in S : \A r \in S : r <= q

\* s without the L that follows the B of the match at p with k letters
DropLigature(s, p, k) == Slice(s, 1, p + k) \o Slice(s, p + k + 2, Len(s))

\* s.replace(/\b([A-Z]*B)L(?=SL\b)/, '$1'): the first match only, its
\* [A-Z]* as long as it can be
FixLigature(s) ==
    LET Letters(p) == SetMax({k \in 0..Len(s) : LigatureAt(s, p, k)})
        DropAt(p)  == DropLigature(s, p, Letters(p))
        hits       == {p \in 1..Len(s) : \E k \in 0..Len(s) : LigatureAt(s, p, k)}
    IN  IF hits = {} THEN s ELSE DropAt(SetMin(hits))

\* the class of /\s*[- ]?\s*/
GapChars == SpaceSet \cup {"-"}
\* the first position at or after i that holds no separator character
RECURSIVE GapEnd(_, _)
GapEnd(s, i) == IF At(s, i) \in GapChars THEN GapEnd(s, i + 1) ELSE i
\* the separator \s*[- ]?\s* spans positions i..(j-1): white space with at
\* most one hyphen
IsBatchGap(s, i, j) == Cardinality({k \in i..(j - 1) : At(s, k) = "-"}) <= 1

\* [A-Z]{lo,hi} \s*[- ]?\s* \d{dlo,dhi} matches s from p with k letters and
\* d digits; bounded selects the \b at both ends
LettersDigitsAt(s, p, k, d, lo, hi, dlo, dhi, bounded) ==
    LET g == GapEnd(s, p + k)
    IN  /\ k \in lo..hi /\ d \in dlo..dhi
        /\ AllIn(s, p, p + k - 1, UpperSet)
        /\ IsBatchGap(s, p + k, g)
        /\ AllIn(s, g, g + d - 1, DigitSet)
        /\ bounded => (WordBoundary(s, p) /\ WordBoundary(s, g + d))

\* the first (leftmost, then greedy) match of the pattern at or after from,
\* as <<p, k, g, d>> (start, letters, start of the digits, digits), or <<>>
FirstLettersDigits(s, from, lo, hi, dlo, dhi, bounded) ==
    LET all == {m \in (from..Len(s)) \X (lo..hi) \X (dlo..dhi) :
                   LettersDigitsAt(s, m[1], m[2], m[3], lo, hi, dlo, dhi, bounded)}
        Preferred(ms) == CHOOSE x \in ms : \A n \in ms :
                            \/ x[1] < n[1]
                            \/ x[1] = n[1] /\ x[2] > n[2]
                            \/ x[1] = n[1] /\ x[2] = n[2] /\ x[3] >= n[3]
        AsMatch(m) == <<m[1], m[2], GapEnd(s, m[1] + m[2]), m[3]>>
    IN  IF all = {} THEN <<>> ELSE AsMatch(Preferred(all))

MinBatchLetters == 2
MaxBatchLetters == 5
MinBatchDigits == 4
MaxBatchDigits == 6

\* String(raw).toUpperCase().replace(/[^A-Z0-9 ]+/g, ' ')
\*     .replace(/\s+/g, ' ').trim()
UpperCleaned(s) ==
    trim(ReplaceRuns(ReplaceRuns(toUpperCase(s), NotBatchChars, <<" ">>),
                     SpaceSet, <<" ">>))

\* the three swaps, in the order of the source: 0 to O, 1 to I, 5 to S
ConfusionRepairs(s) ==
    SwapBetweenLetters(SwapBetweenLetters(SwapBetweenLetters(s, "0", "O"),
                                          "1", "I"),
                       "5", "S")

\* the token with its characters repaired: upper case; every character
\* other than a letter, a digit or a space becomes a space; runs of white
\* space become one space; 0, 1, 5 between letters become O, I, S; the
\* stray L of "...BLSL" is dropped
CleanBatchToken(s) ==
    ReplaceRuns(FixLigature(ConfusionRepairs(UpperCleaned(s))), SpaceSet, <<" ">>)

\* the rebuilt token without the space: `${m[1]}${m[2]}`
BatchOfMatch_Unspaced(s, m) ==
    IF m = <<>> THEN Null
    ELSE Str(Slice(s, m[1], m[1] + m[2] - 1) \o Slice(s, m[3], m[3] + m[4] - 1))

\* `${m[1]} ${m[2]}` for the match m in s, null when there is no match
BatchOfMatch(s, m) ==
    IF m = <<>> THEN Null
    ELSE Str(Slice(s, m[1], m[1] + m[2] - 1) \o <<" ">>
               \o Slice(s, m[3], m[3] + m[4] - 1))

\* s.match(/\b([A-Z]{2,5})\s*[- ]?\s*(\d{4,6})\b/) and the rebuilt token
CanonicalBatch(s) ==
    BatchOfMatch(s, FirstLettersDigits(s, 1, MinBatchLetters, MaxBatchLetters,
                                       MinBatchDigits, MaxBatchDigits, TRUE))

\* normalizeBatchToken(raw)
normalizeBatchToken(raw) ==
    IF ~Truthy(raw) THEN Null ELSE CanonicalBatch(CleanBatchToken(JsString(raw)))

\* if (!n) return null; return /\b[A-Z]{2,5} \d{4,6}\b/.test(n) ? n : null
KeepCanonical(n) ==
    IF ~Truthy(n) THEN Null
    ELSE IF \E p \in 1..Len(n.v), k \in MinBatchLetters..MaxBatchLetters,
               d \in MinBatchDigits..MaxBatchDigits :
                 /\ WordBoundary(n.v, p)
                 /\ AllIn(n.v, p, p + k - 1, UpperSet)
                 /\ At(n.v, p + k) = " "
                 /\ AllIn(n.v, p + k + 1, p + k + d, DigitSet)
                 /\ WordBoundary(n.v, p + k + d + 1)
         THEN n ELSE Null

\* finalizeBatch without the normalizer and without the test of the shape
finalizeBatch_Unchecked(s) == IF Truthy(s) THEN s ELSE Null

\* finalizeBatch(s)
finalizeBatch(s) == KeepCanonical(normalizeBatchToken(s))

(***************************************************************************)
(* Batch voting                                                            *)
(***************************************************************************)
\* the literal lit (lower case) stands at position p of s, case-insensitively
LitAt(s, p, lit) == \A i \in 1..Len(lit) : LowCh(At(s, p + i - 1)) = lit[i]

\* the first position at or after i that holds no white space
RECURSIVE SkipSpaces(_, _)
SkipSpaces(s, i) == IF At(s, i) \in SpaceSet THEN SkipSpaces(s, i + 1) ELSE i

\* /\b(?:Batch(?:\s*No\.?)?|Lot|LOT|BNo|BN|BATCH)\b/i matched at p: the
\* position after the match (alternatives and optional parts in the
\* regular expression's order of preference), 0 when it does not match
BatchKeywordEnd(s, p) ==
    LET b  == p + 5
        n  == SkipSpaces(s, b)
        no == LitAt(s, n, <<"n","o">>)
    IN  IF ~WordBoundary(s, p) THEN 0
        ELSE IF LitAt(s, p, <<"b","a","t","c","h">>)
                  /\ no /\ At(s, n + 2) = "." /\ WordBoundary(s, n + 3) THEN n + 3
        ELSE IF LitAt(s, p, <<"b","a","t","c","h">>)
                  /\ no /\ WordBoundary(s, n + 2) THEN n + 2
        ELSE IF LitAt(s, p, <<"b","a","t","c","h">>) /\ WordBoundary(s, b) THEN b
        ELSE IF LitAt(s, p, <<"l","o","t">>) /\ WordBoundary(s, p + 3) THEN p + 3
        ELSE IF LitAt(s, p, <<"b","n","o">>) /\ WordBoundary(s, p + 3) THEN p + 3
        ELSE IF LitAt(s, p, <<"b","n">>) /\ WordBoundary(s, p + 2) THEN p + 2
        ELSE 0

\* the batch/lot keyword test of a line
HasBatchKeyword(line) == \E p \in 1..Len(line) : BatchKeywordEnd(line, p) > 0

MaxCandLetters == 6
MaxCandDigits == 7

\* every match of /([A-Z]{2,6}\s*[- ]?\s*\d{4,7})/g in s from position from,
\* in order
RECURSIVE CandidateRuns(_, _)
\* the text of the match m, and the matches after it
RunsFromMatch(s, m) ==
    IF m = <<>> THEN <<>>
    ELSE <<Slice(s, m[1], m[3] + m[4] - 1)>> \o CandidateRuns(s, m[3] + m[4])
CandidateRuns(s, from) ==
    RunsFromMatch(s, FirstLettersDigits(s, from, MinBatchLetters, MaxCandLetters,
                                        MinBatchDigits, MaxCandDigits, FALSE))

\* the elements of xs at the positions of the set keep, in order
RECURSIVE PickFrom(_, _, _)
PickFrom(xs, keep, i) ==
    IF i > Len(xs) THEN <<>>
    ELSE (IF i \in keep THEN <<xs[i]>> ELSE <<>>) \o PickFrom(xs, keep, i + 1)

\* Set.add / Map.set over a list: every element at its first occurrence, in
\* insertion order
Dedupe(xs) ==
    PickFrom(xs, {i \in 1..Len(xs) : \A j \in 1..(i - 1) : xs[j] # xs[i]}, 1)

\* the lines around a batch keyword: each keyword line and its successor
RECURSIVE AroundFrom(_, _)
AroundFrom(lines, i) ==
    IF i > Len(lines) THEN <<>>
    ELSE (IF HasBatchKeyword(lines[i])
          THEN <<lines[i]>> \o (IF i + 1 <= Len(lines) THEN <<lines[i + 1]>> ELSE <<>>)
          ELSE <<>>) \o AroundFrom(lines, i + 1)
AroundBatch(lines) == AroundFrom(lines, 1)

\* each string of the list trimmed
TrimAll(xs) == [j \in 1..Len(xs) |-> trim(xs[j])]

\* the matches of CAND_RX, trimmed, in the upper-cased lines
CandidatesIn(lines) ==
    Concat([i \in 1..Len(lines) |-> TrimAll(CandidateRuns(toUpperCase(lines[i]), 1))])

\* extractBatchCandidates(lines)
extractBatchCandidates(lines) == Dedupe(CandidatesIn(AroundBatch(lines)))

HintWeight == 2
SweepWeight == 1
GuessWeight == 1

\* every pool with the same weight
Contributions_Unweighted(cands, w) ==
    LET Survives(c) == Truthy(c.n)
    IN  SelectSeq([i \in 1..Len(cands) |->
                     [n |-> normalizeBatchToken(cands[i]), w |-> 1]], Survives)

\* one pool's contributions to the tally: each candidate (a raw value)
\* normalized, those that fail normalization dropped, each with weight w
Contributions(cands, w) ==
    LET Survives(c) == Truthy(c.n)
    IN  SelectSeq([i \in 1..Len(cands) |->
                     [n |-> normalizeBatchToken(cands[i]), w |-> w]], Survives)

\* the sum of the weights that the contributions cs give to token k
RECURSIVE SumWeights(_, _, _)
SumWeights(cs, k, i) ==
    IF i > Len(cs) THEN 0
    ELSE (IF cs[i].n.v = k THEN cs[i].w ELSE 0) + SumWeights(cs, k, i + 1)

\* the Map after votes.set(n, (votes.get(n) || 0) + w) for each contribution:
\* its keys in insertion order, each with its cumulative weight
VotesOf(cs) ==
    LET Scored(keys) ==
            [i \in 1..Len(keys) |->
                [token |-> keys[i], score |-> SumWeights(cs, keys[i], 1)]]
    IN  Scored(Dedupe([i \in 1..Len(cs) |-> cs[i].n.v]))

\* the loop over the Map's entries: v > bestScore, or v === bestScore and a
\* shorter key
RECURSIVE BestVote(_, _, _)
BestVote(votes, best, bestScore) ==
    IF votes = <<>> THEN best
    ELSE LET k == Head(votes).token
             v == Head(votes).score
             take == \/ v > bestScore
                     \/ v = bestScore /\ Len(k) < (IF Truthy(best) THEN Len(best.v) ELSE 999)
         IN  IF take THEN BestVote(Tail(votes), Str(k), v)
             ELSE BestVote(Tail(votes), best, bestScore)

\* the Map of votes pickBestBatch builds: a) the neighbourhood of a batch
\* keyword, b) every per-image text, c) the model's and the regex's guess
BatchVotes(ocrTexts, hintedLines, aiBatch, rxBatch) ==
    LET AsValues(xs) == [i \in 1..Len(xs) |-> Str(xs[i])]
        Sweep(texts) == Concat([i \in 1..Len(texts) |->
                           CandidateRuns(toUpperCase(texts[i]), 1)])
    IN  VotesOf(Contributions(AsValues(extractBatchCandidates(hintedLines)), HintWeight)
                  \o Contributions(AsValues(Sweep(ocrTexts)), SweepWeight)
                  \o Contributions(<<aiBatch, rxBatch>>, GuessWeight))

\* pickBestBatch({ ocrTexts, hintedLines, aiBatch, rxBatch })
pickBestBatch(ocrTexts, hintedLines, aiBatch, rxBatch) ==
    BestVote(BatchVotes(ocrTexts, hintedLines, aiBatch, rxBatch), Null, -1)

(***************************************************************************)
(* Date Normalizer                                                         *)
(***************************************************************************)
\* the end of the run of characters of cls that starts at i (i - 1 if empty)
RECURSIVE RunEnd(_, _, _)
RunEnd(s, i, cls) == IF At(s, i) \in cls THEN RunEnd(s, i + 1, cls) ELSE i - 1

MonthNames == << <<"j","a","n">>, <<"f","e","b">>, <<"m","a","r">>, <<"a","p","r">>,
                 <<"m","a","y">>, <<"j","u","n">>, <<"j","u","l">>, <<"a","u","g">>,
                 <<"s","e","p">>, <<"o","c","t">>, <<"n","o","v">>, <<"d","e","c">> >>
\* monMap[name.toLowerCase()], 0 when name is no key
MonthNumber(name) ==
    IF \E i \in 1..12 : MonthNames[i] = toLowerCase(name)
    THEN CHOOSE i \in 1..12 : MonthNames[i] = toLowerCase(name)
    ELSE IF toLowerCase(name) = <<"s","e","p","t">> THEN 9 ELSE 0
\* String(n).padStart(2, '0') of a month number
TwoDigits(n) == <<DigitSeq[(n \div 10) + 1], DigitSeq[(n % 10) + 1]>>
\* s.padStart(2, '0')
padStart2(s) == IF Len(s) < 2 THEN <<"0">> \o s ELSE s
\* the value of a digit, and Number(y) of a two-digit string
DigitValue(c) == (CHOOSE i \in 1..10 : DigitSeq[i] = c) - 1
TwoDigitValue(y) == 10 * DigitValue(y[1]) + DigitValue(y[2])
PivotYear == 70
\* the two-digit-year rule left out
ExpandYear_Keep(y) == y

\* the two-digit-year rule: >= 70 is 19xx, else 20xx
ExpandYear(y) ==
    IF Len(y) = 2
    THEN (IF TwoDigitValue(y) >= PivotYear THEN <<"1","9">> ELSE <<"2","0">>) \o y
    ELSE y

DateSeps == {"/", "-", "."}
MonthSeps == {".", "-", "/"} \cup SpaceSet
LetterSet == UpperSet \cup LowerSet

\* /^(Jan|...|Dec)[a-z]*[.\-\/\s]+(\d{2,4})$/i : <<month, year>> or <<>>
MatchMonthYear(s) ==
    LET a == RunEnd(s, 4, LetterSet)          \* the month's letters end here
        b == RunEnd(s, a + 1, MonthSeps)      \* the separators
        c == RunEnd(s, b + 1, DigitSet)       \* the digits
    IN  IF /\ MonthNumber(Slice(s, 1, 3)) > 0
           /\ b >= a + 1
           /\ c - b \in 2..4
           /\ c = Len(s)
        THEN <<Slice(s, 1, 3), Slice(s, b + 1, c)>>
        ELSE <<>>

\* /^(\d{lo1,hi1})[\/\-\.](\d{1,2})[\/\-\.](\d{lo3,hi3})$/ : the three
\* groups or <<>>
MatchNumericDate(s, lo1, hi1, lo3, hi3) ==
    LET a == RunEnd(s, 1, DigitSet)
        b == RunEnd(s, a + 2, DigitSet)
        c == RunEnd(s, b + 2, DigitSet)
    IN  IF /\ a \in lo1..hi1
           /\ At(s, a + 1) \in DateSeps
           /\ b - (a + 1) \in 1..2
           /\ At(s, b + 1) \in DateSeps
           /\ c - (b + 1) \in lo3..hi3
           /\ c = Len(s)
        THEN <<Slice(s, 1, a), Slice(s, a + 2, b), Slice(s, b + 2, c)>>
        ELSE <<>>

\* /^(Jan|...|Dec)[a-z]*\s+(\d{1,2}),?\s*(\d{4})$/i : <<month, day, year>>
\* or <<>>; the day is greedy, and gives digits back to the year when
\* nothing separates them
MatchMonthDayYear(s) ==
    LET a == RunEnd(s, 4, LetterSet)
        b == RunEnd(s, a + 1, SpaceSet)
        c == RunEnd(s, b + 1, DigitSet)
        d == IF At(s, c + 1) = "," THEN c + 1 ELSE c
        e == RunEnd(s, d + 1, SpaceSet)
        f == RunEnd(s, e + 1, DigitSet)
    IN  IF MonthNumber(Slice(s, 1, 3)) = 0 \/ b < a + 1 THEN <<>>
        ELSE IF c - b \in 1..2 /\ f - e = 4 /\ f = Len(s)
             THEN <<Slice(s, 1, 3), Slice(s, b + 1, c), Slice(s, e + 1, f)>>
        ELSE IF c - b \in 5..6 /\ c = Len(s)
             THEN <<Slice(s, 1, 3), Slice(s, b + 1, c - 4), Slice(s, c - 3, c)>>
        ELSE <<>>

\* toIsoDate(str)
toIsoDate(str) ==
    IF ~Truthy(str) THEN Null
    ELSE LET s  == trim(str.v)
             m1 == MatchMonthYear(s)
             m2 == MatchNumericDate(s, 4, 4, 1, 2)
             m3 == MatchNumericDate(s, 1, 2, 2, 4)
             m4 == MatchMonthDayYear(s)
         IN  IF m1 # <<>>
             THEN Str(ExpandYear(m1[2]) \o <<"-">> \o TwoDigits(MonthNumber(m1[1]))
                        \o <<"-","0","1">>)
             ELSE IF m2 # <<>>
             THEN Str(m2[1] \o <<"-">> \o padStart2(m2[2]) \o <<"-">> \o padStart2(m2[3]))
             ELSE IF m3 # <<>>
             THEN Str(ExpandYear(m3[3]) \o <<"-">> \o padStart2(m3[2])
                        \o <<"-">> \o padStart2(m3[1]))
             ELSE IF m4 # <<>>
             THEN Str(m4[3] \o <<"-">> \o TwoDigits(MonthNumber(m4[1]))
                        \o <<"-">> \o padStart2(m4[2]))
             ELSE Str(s)

MinPartialLetters == 3
MaxPartialLetters == 5

\* /([A-Za-z]{3,5})[.\-\/\s]?(\d{1,2})/ matches s at p with k letters, g
\* separators (0 or 1) and d digits
PartialAt(s, p, k, g, d) ==
    /\ AllIn(s, p, p + k - 1, LetterSet)
    /\ g = 1 => At(s, p + k) \in MonthSeps
    /\ AllIn(s, p + k + g, p + k + g + d - 1, DigitSet)

\* its first match (leftmost, greedy) as <<letters, digits>>, or <<>>
MatchPartial(s) ==
    LET all == {m \in (1..Len(s)) \X (MinPartialLetters..MaxPartialLetters)
                        \X (0..1) \X (1..2) : PartialAt(s, m[1], m[2], m[3], m[4])}
    IN  IF all = {} THEN <<>>
        ELSE LET m == CHOOSE x \in all : \A n \in all :
                        \/ x[1] < n[1]
                        \/ x[1] = n[1] /\ x[2] > n[2]
                        \/ x[1] = n[1] /\ x[2] = n[2] /\ x[3] > n[3]
                        \/ x[1] = n[1] /\ x[2] = n[2] /\ x[3] = n[3] /\ x[4] >= n[4]
             IN  <<Slice(s, m[1], m[1] + m[2] - 1),
                   Slice(s, m[1] + m[2] + m[3], m[1] + m[2] + m[3] + m[4] - 1)>>

\* completePartialDate(partialDate, year)
completePartialDate(partialDate, year) ==
    LET m == MatchPartial(partialDate.v)
    IN  IF m # <<>>
        THEN Str(year \o <<"-">>
                  \o (IF MonthNumber(m[1]) > 0 THEN TwoDigits(MonthNumber(m[1]))
                      ELSE <<"0","1">>)
                  \o <<"-">> \o padStart2(m[2]))
        ELSE partialDate

\* (String(ocrText).match(/(20\d{2})/) || [])[1] || currentYear
SniffYear(ocrText, currentYear) ==
    LET hits == {p \in 1..Len(ocrText) :
                    /\ At(ocrText, p) = "2" /\ At(ocrText, p + 1) = "0"
                    /\ At(ocrText, p + 2) \in DigitSet /\ At(ocrText, p + 3) \in DigitSet}
    IN  IF hits = {} THEN currentYear
        ELSE LET p == CHOOSE q \in hits : \A r \in hits : q <= r
             IN  Slice(ocrText, p, p + 3)

MaxPartialLength == 6

\* processExtractedData, one date field: toIsoDate, then the completion of
\* a result of at most 6 characters
processDate(date, ocrText, currentYear) ==
    LET iso == IF Truthy(date) THEN toIsoDate(date) ELSE date
    IN  IF Truthy(iso) /\ Len(iso.v) <= MaxPartialLength
        THEN completePartialDate(iso, SniffYear(ocrText, currentYear))
        ELSE iso

(***************************************************************************)
(* OCR cleanup and hint lines                                              *)
(***************************************************************************)
\* the ten Devanagari digits, zero to nine
DevDigits == <<"dev0","dev1","dev2","dev3","dev4","dev5","dev6","dev7","dev8","dev9">>

\* devnagToAsciiDigits(s)
devnagToAsciiDigits(s) ==
    [i \in 1..Len(s) |->
        IF \E d \in 1..10 : DevDigits[d] = s[i]
        THEN DigitSeq[CHOOSE d \in 1..10 : DevDigits[d] = s[i]]
        ELSE s[i]]

\* s.replace(pattern, rep) with the g flag, for a pattern whose matches do
\* not overlap: End(s, p) is the last position of the match that starts at
\* p, 0 when none starts there
ReplaceMatches(s, End(_, _), rep) ==
    Concat([i \in 1..Len(s) |->
        IF End(s, i) > 0 THEN rep
        ELSE IF \E p \in 1..(i - 1) : End(s, p) >= i THEN <<>>
        ELSE <<s[i]>>])

\* /Capsu\\?es/i at p
CapsuesEnd(s, p) ==
    IF ~LitAt(s, p, <<"c","a","p","s","u">>) THEN 0
    ELSE IF At(s, p + 5) = "\\" /\ LitAt(s, p + 6, <<"e","s">>) THEN p + 7
    ELSE IF LitAt(s, p + 5, <<"e","s">>) THEN p + 6
    ELSE 0

\* /\bMig\.?\b/i at p
MigEnd(s, p) ==
    IF ~(WordBoundary(s, p) /\ LitAt(s, p, <<"m","i","g">>)) THEN 0
    ELSE IF At(s, p + 3) = "." /\ WordBoundary(s, p + 4) THEN p + 3
    ELSE IF WordBoundary(s, p + 3) THEN p + 2
    ELSE 0

\* /\bExpir[yil]+\b/i at p
ExpiryEnd(s, p) ==
    LET e == RunEnd(s, p + 5, {"y", "i", "l", "Y", "I", "L"})
    IN  IF WordBoundary(s, p) /\ LitAt(s, p, <<"e","x","p","i","r">>)
           /\ e >= p + 5 /\ WordBoundary(s, e + 1)
        THEN e ELSE 0

\* /\bw\b/ at p, for a literal word w (case-sensitive)
WordEnd(s, p, w) ==
    IF /\ WordBoundary(s, p)
       /\ \A i \in 1..Len(w) : At(s, p + i - 1) = w[i]
       /\ WordBoundary(s, p + Len(w))
    THEN p + Len(w) - 1 ELSE 0
ZeroCtEnd(s, p) == WordEnd(s, p, <<"0","C","T">>)
SefEnd(s, p) == WordEnd(s, p, <<"S","E","F">>)
SenEnd(s, p) == WordEnd(s, p, <<"S","E","N">>)

\* cleanupOCR(text)
cleanupOCR(text) ==
    LET s0 == devnagToAsciiDigits(text)
        s1 == ReplaceMatches(s0, CapsuesEnd, <<"C","a","p","s","u","l","e","s">>)
        s2 == ReplaceMatches(s1, MigEnd, <<"M","f","g",".">>)
        s3 == ReplaceMatches(s2, ExpiryEnd, <<"E","x","p","i","r","y">>)
        s4 == ReplaceMatches(s3, ZeroCtEnd, <<"O","C","T">>)
        s5 == ReplaceMatches(s4, SefEnd, <<"S","E","P">>)
        s6 == ReplaceMatches(s5, SenEnd, <<"S","E","P">>)
    IN  ReplaceRuns(s6, {" ", "\t"}, <<" ">>)

\* the position of the first line break at or after i (Len(s) + 1 if none)
RECURSIVE LineEnd(_, _)
LineEnd(s, i) == IF i > Len(s) \/ s[i] = "\n" THEN i ELSE LineEnd(s, i + 1)

\* s.split(/\r?\n/), from position i
RECURSIVE SplitFrom(_, _)
SplitFrom(s, i) ==
    LET e == LineEnd(s, i)
    IN  <<Slice(s, i, e - 1)>> \o (IF e > Len(s) THEN <<>> ELSE SplitFrom(s, e + 1))
SplitLines(s) == SplitFrom(s, 1)

\* buildHints(txt)._lines: the lines, trimmed, the empty ones dropped
buildHints(txt) ==
    LET lines == SplitLines(txt)
        NonEmpty(l) == l # <<>>
    IN  SelectSeq([i \in 1..Len(lines) |-> trim(lines[i])], NonEmpty)

\* hay.includes(needle)
Includes(hay, needle) ==
    \E p \in 1..(Len(hay) + 1) :
        \A i \in 1..Len(needle) : At(hay, p + i - 1) = needle[i]

(***************************************************************************)
(* Regex extractor: name and batch                                         *)
(***************************************************************************)
\* namePattern
\*   /(Flucloxacillin(?:\s+Capsules?\s*BP)?|FLUCLASS\s*500|BUSTOP|
\*     VITAMIN\s*B-?COMPLEX\s*SYRUP)/i
\* matched at p: the position after the match, 0 when it does not match
NamePatternEnd(s, p) ==
    LET f  == p + 14
        a  == SkipSpaces(s, f)
        c  == IF LitAt(s, a + 7, <<"s">>) THEN a + 8 ELSE a + 7
        e  == SkipSpaces(s, c)
        g  == SkipSpaces(s, p + 8)
        v  == SkipSpaces(s, p + 7)
        h  == IF At(s, v + 1) = "-" THEN v + 2 ELSE v + 1
        k  == SkipSpaces(s, h + 7)
    IN  IF LitAt(s, p, <<"f","l","u","c","l","o","x","a","c","i","l","l","i","n">>)
        THEN (IF a > f /\ LitAt(s, a, <<"c","a","p","s","u","l","e">>) /\ LitAt(s, e, <<"b","p">>)
              THEN e + 2 ELSE f)
        ELSE IF LitAt(s, p, <<"f","l","u","c","l","a","s","s">>) /\ LitAt(s, g, <<"5","0","0">>) THEN g + 3
        ELSE IF LitAt(s, p, <<"b","u","s","t","o","p">>) THEN p + 6
        ELSE IF /\ LitAt(s, p, <<"v","i","t","a","m","i","n">>) /\ LitAt(s, v, <<"b">>)
                /\ LitAt(s, h, <<"c","o","m","p","l","e","x">>) /\ LitAt(s, k, <<"s","y","r","u","p">>) THEN k + 5
        ELSE 0

\* nameMatch ? nameMatch[0].replace(/\s+/g, ' ').trim() : null
RegexName(src) ==
    LET hits == {p \in 1..Len(src) : NamePatternEnd(src, p) > 0}
    IN  IF hits = {} THEN Null
        ELSE LET p == CHOOSE q \in hits : \A r \in hits : q <= r
             IN  Str(trim(ReplaceRuns(Slice(src, p, NamePatternEnd(src, p) - 1),
                                      SpaceSet, <<" ">>)))

\* the keyword (?:Batch(?:\s*No\.?)?|Lot|LOT|BNo|BN|BATCH) at p, with no \b
\* after it: the positions after the keyword, in the order in which the
\* regular expression tries them
KeywordEnds(s, p) ==
    LET n == SkipSpaces(s, p + 5)
    IN  IF LitAt(s, p, <<"b","a","t","c","h">>)
        THEN (IF LitAt(s, n, <<"n","o">>)
              THEN (IF At(s, n + 2) = "." THEN <<n + 3>> ELSE <<>>) \o <<n + 2>>
              ELSE <<>>) \o <<p + 5>>
        ELSE IF LitAt(s, p, <<"l","o","t">>) THEN <<p + 3>>
        ELSE IF LitAt(s, p, <<"b","n","o">>) THEN <<p + 3, p + 2>>
        ELSE IF LitAt(s, p, <<"b","n">>) THEN <<p + 2>>
        ELSE <<>>

\* the class [A-Za-z0-9\-]
BatchValueChars == UpperSet \cup LowerSet \cup DigitSet \cup {"-"}
MinRegexBatch == 3

\* ([A-Z0-9\-]{3,})\b with the i flag, from c: the last position of the
\* capture (the longest one that ends at a word boundary), 0 when none
CaptureEnd(s, c) ==
    LET e  == RunEnd(s, c, BatchValueChars)
        ok == {x \in (c + MinRegexBatch - 1)..e : WordBoundary(s, x + 1)}
    IN  IF ok = {} THEN 0 ELSE CHOOSE x \in ok : \A y \in ok : y <= x

\* \s*[:\-]?\s* from k: the positions where the capture can start, in the
\* order in which the regular expression tries them
CaptureStarts(s, k) ==
    LET a == SkipSpaces(s, k)
    IN  IF At(s, a) = ":" THEN <<SkipSpaces(s, a + 1)>>
        ELSE IF At(s, a) = "-" THEN <<SkipSpaces(s, a + 1), a>>
        ELSE <<a>>

\* batchPattern
\*   /\b(?:Batch(?:\s*No\.?)?|Lot|LOT|BNo|BN|BATCH)\s*[:\-]?\s*([A-Z0-9\-]{3,})\b/i
\* matched at p: its capture, <<>> when it does not match
BatchPatternAt(s, p) ==
    LET ke     == KeywordEnds(s, p)
        starts == Concat([i \in 1..Len(ke) |-> CaptureStarts(s, ke[i])])
        Captures(c) == CaptureEnd(s, c) > 0
        ok     == SelectSeq(starts, Captures)
    IN  IF ~WordBoundary(s, p) \/ ok = <<>> THEN <<>>
        ELSE Slice(s, ok[1], CaptureEnd(s, ok[1]))

\* src.match(batchPattern)?.[1] || null
RegexBatch(src) ==
    LET hits == {p \in 1..Len(src) : BatchPatternAt(src, p) # <<>>}
    IN  IF hits = {} THEN Null
        ELSE Str(BatchPatternAt(src, CHOOSE q \in hits : \A r \in hits : q <= r))

\* extractWithRegex(text): the name and the batch number
extractWithRegex(text) ==
    [name |-> RegexName(text), batch_number |-> RegexBatch(text)]

(***************************************************************************)
(* Label-based pull of the batch number                                    *)
(***************************************************************************)
\* batchLabel /\b(?:Batch(?:\s*No\.?)?|Lot|LOT|BNo|BN|BATCH)\b[:\-\s]*/i in a
\* line: <<p, e>>, the first match's start and the position after it, or <<>>
BatchLabelSpan(line) ==
    LET hits == {p \in 1..Len(line) : BatchKeywordEnd(line, p) > 0}
    IN  IF hits = {} THEN <<>>
        ELSE LET p == CHOOSE q \in hits : \A r \in hits : q <= r
             IN  <<p, RunEnd(line, BatchKeywordEnd(line, p), {":", "-"} \cup SpaceSet) + 1>>

MaxLabelValue == 20

\* s.match(/([A-Za-z0-9\-]{1,20})/)?.[1] : the first run, at most 20
\* characters of it; <<>> when there is none
FirstValue(s) ==
    LET hits == {p \in 1..Len(s) : s[p] \in BatchValueChars}
    IN  IF hits = {} THEN <<>>
        ELSE LET p == CHOOSE q \in hits : \A r \in hits : q <= r
                 e == RunEnd(s, p, BatchValueChars)
             IN  Slice(s, p, IF e > p + MaxLabelValue - 1 THEN p + MaxLabelValue - 1 ELSE e)

\* pullLabeledValue(lines, batchLabel, batchValue), from line i on
RECURSIVE pullLabeledValue(_, _)
pullLabeledValue(lines, i) ==
    IF i > Len(lines) THEN Null
    ELSE LET span  == BatchLabelSpan(lines[i])
             after == trim(Slice(lines[i], 1, span[1] - 1) \o <<" ">>
                            \o Slice(lines[i], span[2], Len(lines[i])))
             nxt   == IF i + 1 <= Len(lines) THEN FirstValue(lines[i + 1]) ELSE <<>>
         IN  IF span = <<>> THEN pullLabeledValue(lines, i + 1)
             ELSE IF FirstValue(after) # <<>> THEN Str(FirstValue(after))
             ELSE IF nxt # <<>> THEN Str(nxt)
             ELSE pullLabeledValue(lines, i + 1)

\* extractBatchAndMfgFromLines(lines): the batch number
extractBatchAndMfgFromLines(lines) ==
    [batch_number |-> Or(pullLabeledValue(lines, 1), Null)]

\* getBatchContext(lines)
getBatchContext(lines) ==
    LET hits == {i \in 1..Len(lines) : HasBatchKeyword(lines[i])}
    IN  IF hits = {} THEN <<>>
        ELSE LET idx == CHOOSE i \in hits : \A j \in hits : i <= j
             IN  Join(SubSeq(lines, IF idx > 1 THEN idx - 1 ELSE 1,
                             IF idx < Len(lines) THEN idx + 1 ELSE Len(lines)), <<" ">>)

(***************************************************************************)
(* Model responses                                                         *)
(*                                                                         *)
(* A parsed JSON value is a record [k, f, items]: its kind, the fields of  *)
(* an object (Undefined where the key is absent) and the elements of an    *)
(* array.  The content of a response is a record [wrap, body]: the JSON    *)
(* value its text encodes (kind "none" when the text is no JSON) and what  *)
(* surrounds it: nothing, a ``` fence, or prose.                           *)
(***************************************************************************)
NoFields ==
    [name |-> Undefined, batch_number |-> Undefined,
     active_ingredient_on_label |-> Undefined]
JNull   == [k |-> "null", f |-> NoFields, items |-> <<>>]
JNone   == [k |-> "none", f |-> NoFields, items |-> <<>>]
JNum    == [k |-> "num", f |-> NoFields, items |-> <<>>]
JArr(a) == [k |-> "arr", f |-> NoFields, items |-> a]
JObj(f) == [k |-> "obj", f |-> f, items |-> <<>>]

\* ToBoolean of a parsed value (the number of this model is not zero)
JTruthy(j) == j.k \in {"obj", "arr", "num"}
\* j?.key
Field(j, key) == IF j.k = "obj" THEN j.f[key] ELSE Undefined
FieldNames == {"name", "batch_number", "active_ingredient_on_label"}

\* safeParseMaybe(raw): JSON.parse of the text without its fence, else of the
\* text between the first "{" and the last "}", else null
safeParseMaybe(raw) ==
    IF raw.body.k = "none" THEN JNull
    ELSE IF raw.wrap \in {"bare", "fenced"} THEN raw.body
    ELSE IF raw.body.k = "obj" THEN raw.body
    ELSE JNull

(***************************************************************************)
(* Merge logic                                                             *)
(***************************************************************************)
MinNameLength == 6

\* x.length >= 6 (undefined >= 6 is false)
IsLong(x) == x.t \in {"str", "arr"} /\ Len(x.v) >= MinNameLength

\* preferName raises a TypeError: aiName.trim is not a function
preferNameThrows(aiName, rxName) ==
    Truthy(aiName) /\ IsLong(aiName) /\ aiName.t # "str"

\* the regex name asked first
preferName_RegexFirst(aiName, rxName) ==
    IF Truthy(rxName) /\ IsLong(rxName) THEN Str(trim(rxName.v))
    ELSE IF Truthy(aiName) /\ IsLong(aiName) THEN Str(trim(aiName.v))
    ELSE Or(Or(aiName, rxName), Null)

\* preferName(aiName, rxName)
preferName(aiName, rxName) ==
    IF Truthy(aiName) /\ IsLong(aiName) THEN Str(trim(aiName.v))
    ELSE IF Truthy(rxName) /\ IsLong(rxName) THEN Str(trim(rxName.v))
    ELSE Or(Or(aiName, rxName), Null)

\* mergeResults(ai || {}, rx, ocrLines, labelHits): name, batch and the label-only
\* active ingredient
mergeResults(aiRec, rxRec, ocrLines, hits) ==
    LET batchCtx == toLowerCase(getBatchContext(ocrLines))
        aiBatch  == Field(aiRec, "batch_number")
        Near(b)  == Truthy(b) /\ Includes(batchCtx, toLowerCase(JsString(b)))
    IN  [name |-> preferName(Field(aiRec, "name"), rxRec.name),
         batch_number |->
             IF Truthy(hits.batch_number) THEN hits.batch_number
             ELSE IF Near(rxRec.batch_number) THEN rxRec.batch_number
             ELSE IF Near(aiBatch) THEN aiBatch
             ELSE Null,
         active_ingredient_on_label |->
             Or(Field(aiRec, "active_ingredient_on_label"), Null)]

\* Object.keys(COMMON_USES_BY_INGREDIENT)
IngredientKeys ==
    << <<"p","a","r","a","c","e","t","a","m","o","l">>, <<"a","c","e","t","a","m","i","n","o","p","h","e","n">>, <<"i","b","u","p","r","o","f","e","n">>, <<"l","o","p","e","r","a","m","i","d","e">>,
       <<"o","r","a","l"," ","r","e","h","y","d","r","a","t","i","o","n"," ","s","a","l","t","s">>, <<"c","e","t","i","r","i","z","i","n","e">>, <<"a","m","o","x","i","c","i","l","l","i","n">>,
       <<"f","l","u","c","l","o","x","a","c","i","l","l","i","n">> >>

\* inferActiveFromName raises a TypeError: name.toLowerCase is not a function
inferActiveFromNameThrows(name) == Truthy(name) /\ name.t # "str"

\* inferActiveFromName(name)
inferActiveFromName(name) ==
    LET hits == {i \in 1..Len(IngredientKeys) :
                    Includes(toLowerCase(name.v), IngredientKeys[i])}
    IN  IF ~Truthy(name) \/ hits = {} THEN Null
        ELSE Str(IngredientKeys[CHOOSE i \in hits : \A j \in hits : i <= j])

\* keys that COMMON_USES_BY_INGREDIENT[key] finds on Object.prototype: the
\* value is truthy and has no slice method
InheritedKeys ==
    { <<"c","o","n","s","t","r","u","c","t","o","r">>,
      <<"t","o","S","t","r","i","n","g">>,
      <<"v","a","l","u","e","O","f">>,
      <<"h","a","s","O","w","n","P","r","o","p","e","r","t","y">> }

\* COMMON_USES_BY_INGREDIENT[active_guess].slice(0, 6) raises a TypeError
\* (uses_on_label is absent from every answer of this model)
inferredUsesThrows(active_guess) ==
    Truthy(active_guess) /\ JsString(active_guess) \in InheritedKeys

\* the number of images of a scan
MaxImages == 2

(***************************************************************************)
(* The extraction pipeline: extractProductDataFromImages and its wrapper   *)
(*                                                                         *)
(* One action per stretch of code between two awaits.  The provider's      *)
(* answers (or failures) and the OCR engine's results are inputs.          *)
(***************************************************************************)
\* the records that leave the pipeline: how the call ended, the fields of
\* the record and its _source ("undefined" when the property is not set)
NoRecord ==
    [status |-> "none", name |-> Undefined, batch_number |-> Undefined,
     active_ingredient_on_label |-> Undefined, _source |-> "none"]
Thrown == [NoRecord EXCEPT !.status = "threw"]
\* the calls a run can make: the vision request, performOCR, the text-model
\* request, extractWithRegex, pickBestBatch, and writes to the database
NoCalls == [vision |-> 0, ocr |-> 0, text |-> 0, regex |-> 0, vote |-> 0, db |-> 0]
NoResponse == [status |-> 0, success |-> FALSE, total_tablets |-> Null]

NoMerged ==
    [name |-> Undefined, batch_number |-> Undefined,
     active_ingredient_on_label |-> Undefined]
NoRx == [name |-> Null, batch_number |-> Null]
NoHits == [batch_number |-> Null]

\* model outputs
O_Para ==
    JObj([NoFields EXCEPT !.name = Str(<<"P","a","r","a","c","e","t","a","m","o","l"," ","5","0","0","m","g">>),
                          !.batch_number = Str(<<"F","B","L","S","L"," ","2","2","0","9">>)])
O_Padded ==
    JObj([NoFields EXCEPT !.name = Str(<<" ","I","b","u","p","r","o","f","e","n"," ">>), !.batch_number = Null])
O_Short ==
    JObj([NoFields EXCEPT !.name = Str(<<"A","b","c">>),
                          !.active_ingredient_on_label = Str(<<"Z","i","n","c">>)])
O_NumName == JObj([NoFields EXCEPT !.name = Num(<<"1","2","3","4","5">>)])
O_ArrName == JObj([NoFields EXCEPT !.name = Arr(<<"a","b","c","d","e","f">>)])
O_Empty ==
    JObj([name |-> Null, batch_number |-> Null, active_ingredient_on_label |-> Null])
O_Inherited ==
    JObj([NoFields EXCEPT !.name = Str(<<"P","a","r","a","c","e","t","a","m","o","l"," ","5","0","0","m","g">>),
                          !.active_ingredient_on_label = Str(<<"c","o","n","s","t","r","u","c","t","o","r">>)])
O_JunkBatch == JObj([NoFields EXCEPT !.name = Str(<<>>), !.batch_number = Str(<<"1","2">>)])

\* what the vision model can answer
VisionContents ==
    { [wrap |-> "bare", body |-> JNone],
      [wrap |-> "bare", body |-> O_Para],
      [wrap |-> "fenced", body |-> O_NumName],
      [wrap |-> "bare", body |-> O_Empty],
      [wrap |-> "bare", body |-> O_JunkBatch],
      [wrap |-> "bare", body |-> JNum],
      [wrap |-> "bare", body |-> JArr(<<Num(<<"1">>)>>)],
      [wrap |-> "bare", body |-> JArr(<<>>)] }

\* what the text model can answer
TextContents ==
    { [wrap |-> "bare", body |-> JNone],
      [wrap |-> "bare", body |-> JNull],
      [wrap |-> "bare", body |-> JNum],
      [wrap |-> "prose", body |-> JNum],
      [wrap |-> "prose", body |-> O_Para],
      [wrap |-> "bare", body |-> O_Padded],
      [wrap |-> "bare", body |-> O_Inherited],
      [wrap |-> "fenced", body |-> O_Short],
      [wrap |-> "bare", body |-> O_NumName],
      [wrap |-> "bare", body |-> O_ArrName],
      [wrap |-> "bare", body |-> O_Empty] }

\* what the OCR engine can read on one image
X_Label == <<"B","a","t","c","h"," ","N","o",":"," ","F","B","L","S","L"," ","2","2","0","9","\n","E","x","p","i","r","y"," ","O","C","T"," ","2","4">>
X_Noise == <<"B"," ","N"," ","O"," ","1"," ","2"," ","3"," ","4">>
X_Dot   == <<"B","a","t","c","h","."," ","A","0","B","1","2","3","4">>
X_Name  == <<"B","U","S","T","O","P"," "," ","S","y","r","u","p","\n","A","B"," ","1","2","3","4">>
X_Short == <<"L","o","t"," ","1","2","\n","M","i","g",".","L","i","c">>
OcrTexts == {X_Label, X_Noise, X_Dot, X_Name, X_Short}

InitPipeline ==
    /\ mode = "pipeline"
    /\ pc = "entry"
    /\ apiKey \in BOOLEAN
    /\ images \in 1..MaxImages
    /\ visionOutcome = "pending"
    /\ imageIndex = 0
    /\ perImageTexts = <<>>
    /\ cleanedOriginal = <<>>
    /\ hintLines = <<>>
    /\ ai = JNull
    /\ rx = NoRx
    /\ labelHits = NoHits
    /\ merged = NoMerged
    /\ votedBatch = Null
    /\ result = NoRecord
    /\ wrapped = NoRecord
    /\ visionAnswer = JNull
    /\ calls = NoCalls
    /\ worker = "none" /\ extracted = NoRecord /\ ocrResults = <<>>
    /\ response = NoResponse
    /\ arg = Null /\ res = Null /\ res2 = Null

\* the test of OPENROUTER_API_KEY, and the vision request
Enter ==
    /\ mode = "pipeline" /\ pc = "entry"
    /\ IF apiKey
       THEN /\ pc' = "awaitVision"
            /\ calls' = [calls EXCEPT !.vision = @ + 1]
            /\ UNCHANGED result
       ELSE pc' = "threw" /\ result' = Thrown /\ UNCHANGED calls
    /\ UNCHANGED <<mode, apiKey, images, visionOutcome, imageIndex, perImageTexts,
                   cleanedOriginal, hintLines, ai, rx, labelHits, merged,
                   votedBatch, wrapped, visionAnswer, pureVars, scanVars>>

\* the vision record after finalizeBatch of a truthy batch number
\* the record with the batch number as the model gave it
visionRecord_RawBatch(vision) ==
    [name |-> Field(vision, "name"),
     batch_number |-> Field(vision, "batch_number"),
     active_ingredient_on_label |-> Field(vision, "active_ingredient_on_label")]

visionRecord(vision) ==
    LET b == Field(vision, "batch_number")
    IN  [name |-> Field(vision, "name"),
         batch_number |-> IF Truthy(b) THEN finalizeBatch(b) ELSE b,
         active_ingredient_on_label |-> Field(vision, "active_ingredient_on_label")]

\* a test that no record passes
enough_Never(vision, processed) == FALSE

\* Object.values(processed).some(v => v != null && v !== '')
enough(vision, processed) ==
    LET Counts(v) == NotNullish(v) /\ v # Str(<<>>)
    IN  \/ \E key \in FieldNames : Counts(processed[key])
        \/ \E i \in 1..Len(vision.items) : Counts(vision.items[i])

\* the vision model answers: extractWithVision returns the parsed answer
VisionResponds ==
    /\ mode = "pipeline" /\ pc = "awaitVision"
    /\ \E content \in VisionContents : visionAnswer' = safeParseMaybe(content)
    /\ pc' = "visionParsed"
    /\ UNCHANGED <<mode, apiKey, images, visionOutcome, imageIndex, perImageTexts,
                   cleanedOriginal, hintLines, ai, rx, labelHits, merged,
                   votedBatch, result, wrapped, calls, pureVars, scanVars>>

\* the rest of the try block: the record is returned when it is enough, else
\* the run goes on to OCR (and the answer is out of scope)
VisionDecides ==
    /\ mode = "pipeline" /\ pc = "visionParsed"
    /\ LET Decide(vision, processed) ==
                IF JTruthy(vision) /\ enough(vision, processed)
                THEN /\ visionOutcome' = "accepted"
                     /\ result' = [status |-> "returned",
                                   name |-> processed.name,
                                   batch_number |-> processed.batch_number,
                                   active_ingredient_on_label |->
                                       processed.active_ingredient_on_label,
                                   _source |-> "vision"]
                     /\ pc' = "returned"
                     /\ UNCHANGED visionAnswer
                ELSE /\ visionOutcome' =
                          IF JTruthy(vision) THEN "insufficient" ELSE "null"
                     /\ pc' = "ocr"
                     /\ visionAnswer' = JNull
                     /\ UNCHANGED result
       IN  Decide(visionAnswer, visionRecord(visionAnswer))
    /\ UNCHANGED <<mode, apiKey, images, imageIndex, perImageTexts, cleanedOriginal,
                   hintLines, ai, rx, labelHits, merged, votedBatch, wrapped,
                   calls, pureVars, scanVars>>

\* the vision call (or the encoding of an image for it) throws: caught
VisionFails ==
    /\ mode = "pipeline" /\ pc = "awaitVision"
    /\ visionOutcome' = "threw"
    /\ pc' = "ocr"
    /\ UNCHANGED <<mode, apiKey, images, imageIndex, perImageTexts, cleanedOriginal,
                   hintLines, ai, rx, labelHits, merged, votedBatch, result,
                   wrapped, visionAnswer, calls, pureVars, scanVars>>

\* the end of one turn of the OCR loop; after the last image the text is
\* cleaned, the hint lines are built and the text-model request is sent
AfterImage(texts) ==
    /\ perImageTexts' = texts
    /\ imageIndex' = imageIndex + 1
    /\ IF imageIndex + 1 = images
       THEN /\ cleanedOriginal' =
                 cleanupOCR(Concat([i \in 1..Len(texts) |-> texts[i] \o <<"\n">>]))
            /\ hintLines' = buildHints(cleanedOriginal')
            /\ pc' = "awaitText"
            /\ calls' = [calls EXCEPT !.ocr = @ + 1, !.text = @ + 1]
       ELSE /\ calls' = [calls EXCEPT !.ocr = @ + 1]
            /\ UNCHANGED <<cleanedOriginal, hintLines, pc>>
    /\ UNCHANGED <<mode, apiKey, images, visionOutcome, ai, rx, labelHits, merged,
                   votedBatch, result, wrapped, visionAnswer, pureVars, scanVars>>

\* performOCR returns the text of the next image
OcrReturns ==
    /\ mode = "pipeline" /\ pc = "ocr"
    /\ \E text \in OcrTexts : AfterImage(Append(perImageTexts, text))

\* performOCR throws on the next image: caught, nothing is pushed
OcrFails ==
    /\ mode = "pipeline" /\ pc = "ocr"
    /\ AfterImage(perImageTexts)

\* the merged value first, the vote only without it
finalBatch_Precedence(voted, mergedBatch) == finalizeBatch(Or(mergedBatch, voted))

\* finalizeBatch(votedBatch || merged.batch_number)
finalBatch(voted, mergedBatch) == finalizeBatch(Or(voted, mergedBatch))

\* the code after the text-model call, with ai the parsed answer (null when
\* the call threw): regex extraction, label pull, merge, vote, enrichment
Settle(aiVal) ==
    /\ ai' = aiVal
    /\ rx' = extractWithRegex(cleanedOriginal)
    /\ labelHits' = extractBatchAndMfgFromLines(hintLines)
    /\ IF preferNameThrows(Field(aiVal, "name"), rx'.name)
       THEN /\ merged' = NoMerged
            /\ votedBatch' = Null
            /\ result' = Thrown
            /\ pc' = "threw"
            /\ calls' = [calls EXCEPT !.regex = @ + 1]
       ELSE /\ merged' = mergeResults(aiVal, rx', hintLines, labelHits')
            /\ calls' = [calls EXCEPT !.regex = @ + 1, !.vote = @ + 1]
            /\ votedBatch' = pickBestBatch(perImageTexts, hintLines,
                                           Field(aiVal, "batch_number"), rx'.batch_number)
            /\ LET active     == merged'.active_ingredient_on_label
                   active_guess == Or(active, inferActiveFromName(merged'.name))
               IN  IF \/ ~Truthy(active) /\ inferActiveFromNameThrows(merged'.name)
                      \/ inferredUsesThrows(active_guess)
                   THEN result' = Thrown /\ pc' = "threw"
                   ELSE /\ result' =
                             [status |-> "returned",
                              name |-> merged'.name,
                              batch_number |->
                                  finalBatch(votedBatch', merged'.batch_number),
                              active_ingredient_on_label |->
                                  Or(Or(active, active_guess), Null),
                              _source |-> IF JTruthy(aiVal) THEN "ocr_llm" ELSE "undefined"]
                        /\ pc' = "returned"
    /\ UNCHANGED <<mode, apiKey, images, visionOutcome, imageIndex, perImageTexts,
                   cleanedOriginal, hintLines, wrapped, visionAnswer, pureVars,
                   scanVars>>

\* the text model answers
TextResponds ==
    /\ mode = "pipeline" /\ pc = "awaitText"
    /\ \E content \in TextContents : Settle(safeParseMaybe(content))

\* the text-model call throws: caught, ai stays null
TextFails ==
    /\ mode = "pipeline" /\ pc = "awaitText"
    /\ Settle(JNull)

\* lib/scanner/extract.ts: return result || { _source: 'ocr@aiExtraction-null' }
WrapperReturns ==
    /\ mode = "pipeline" /\ pc = "returned"
    /\ wrapped' = IF result.status = "returned" THEN result
                  ELSE [NoRecord EXCEPT !.status = "returned",
                                        !._source = "ocr@aiExtraction-null"]
    /\ pc' = "wrapped"
    /\ UNCHANGED <<mode, apiKey, images, visionOutcome, imageIndex, perImageTexts,
                   cleanedOriginal, hintLines, ai, rx, labelHits, merged,
                   votedBatch, result, visionAnswer, calls, pureVars, scanVars>>

\* lib/scanner/extract.ts: catch (err) { return { _source: 'ocr@aiExtraction-error' } }
WrapperCatches ==
    /\ mode = "pipeline" /\ pc = "threw"
    /\ wrapped' = [NoRecord EXCEPT !.status = "returned",
                                   !._source = "ocr@aiExtraction-error"]
    /\ pc' = "wrapped"
    /\ UNCHANGED <<mode, apiKey, images, visionOutcome, imageIndex, perImageTexts,
                   cleanedOriginal, hintLines, ai, rx, labelHits, merged,
                   votedBatch, result, visionAnswer, calls, pureVars, scanVars>>

Next ==
    \/ Enter
    \/ VisionResponds \/ VisionFails \/ VisionDecides
    \/ OcrReturns \/ OcrFails
    \/ TextResponds \/ TextFails
    \/ WrapperReturns \/ WrapperCatches

Spec == InitPipeline /\ [][Next]_vars

\* the steps of the program around the two model calls always get to run;
\* nothing obliges the model provider to answer, and neither call is given
\* a timeout or an abort signal
LiveSpec ==
    /\ Spec
    /\ WF_vars(Enter)
    /\ WF_vars(WrapperReturns \/ WrapperCatches)

(***************************************************************************)
(* Properties of the pipeline                                              *)
(***************************************************************************)
\* the call has ended
Finished == mode = "pipeline" /\ pc \in {"returned", "threw", "wrapped"}
\* the call has ended on the OCR path: the vision attempt gave nothing
TextDone == Finished /\ visionOutcome \in {"threw", "null", "insufficient"}
SourceTags == {"vision", "ocr_llm", "regex-only"}

\* C1: every record returned by extractProductDataFromImages, and every
\* record returned by its wrapper, carries a _source that is one of
\* "vision", "ocr_llm" and "regex-only".
C1_SourceTagged ==
    /\ (Finished /\ result.status = "returned") => result._source \in SourceTags
    /\ (Finished /\ pc = "wrapped") => wrapped._source \in SourceTags

\* C2: when the vision attempt gave nothing and the text model gave nothing,
\* the call returns a record whose _source is "regex-only", and does not throw.
C2_RegexOnly ==
    (TextDone /\ ai.k = "null")
        => (result.status = "returned" /\ result._source = "regex-only")

\* C3: whatever the content of the models' answers, the call returns a record:
\* with the API key set, it never ends by throwing.
C3_NoThrowOnContent ==
    (mode = "pipeline" /\ apiKey) => result.status # "threw"

\* C4: a pending model call (vision or text) always comes to an end, by an
\* answer, a failure or a timeout, so that the pipeline moves on.
C4_ModelCallsEnd ==
    (mode = "pipeline" /\ pc \in {"awaitVision", "awaitText"})
        ~> (pc \notin {"awaitVision", "awaitText"})

\* C5: when the vision call threw and the text model answered JSON with a name
\* of at least 6 characters, the call returns a record with _source "ocr_llm"
\* and that name.
C5_TextNameWins ==
    (TextDone /\ visionOutcome = "threw" /\ ai.k = "obj"
       /\ ai.f.name.t = "str" /\ Len(ai.f.name.v) >= MinNameLength)
        => /\ result.status = "returned"
           /\ result._source = "ocr_llm"
           /\ result.name = ai.f.name

\* no candidate of the three pools of the vote survived normalization: the
\* Map of votes was empty and pickBestBatch returned null
PoolsEmpty == votedBatch = Null

PipelineIdle ==
    /\ apiKey = TRUE /\ images = 1 /\ visionOutcome = "pending" /\ imageIndex = 0
    /\ perImageTexts = <<>> /\ cleanedOriginal = <<>> /\ hintLines = <<>>
    /\ ai = JNull /\ rx = NoRx /\ labelHits = NoHits /\ merged = NoMerged
    /\ votedBatch = Null /\ result = NoRecord /\ wrapped = NoRecord
    /\ visionAnswer = JNull /\ calls = NoCalls

\* no ocrBuffer call and no scan request is running
ScanIdle ==
    /\ worker = "none" /\ extracted = NoRecord /\ ocrResults = <<>>
    /\ response = NoResponse

(***************************************************************************)
(* Inputs of the pure functions: every concatenation of at most MaxChunks  *)
(* label fragments.                                                        *)
(***************************************************************************)
ChunkStrings(chunks, n) ==
    {Concat(f) : f \in UNION {[1..m -> chunks] : m \in 0..n}}

MaxChunks == 3

BatchChunks ==
    { <<"F","B","L","S","L">>, <<"A","B">>, <<"A","0","B">>, <<"c","5","d">>,
      <<"1">>, <<" ">>, <<"-">>, <<"2","2","0","9">>, <<"1","2","3","4","5","6">> }

BatchInputs == {Null} \cup {Str(s) : s \in ChunkStrings(BatchChunks, MaxChunks)}

(***************************************************************************)
(* The batch normalizer applied to a token, and again to its own result    *)
(***************************************************************************)
InitBatch ==
    /\ mode = "batch"
    /\ pc = "input"
    /\ arg \in BatchInputs
    /\ res = Null
    /\ res2 = Null
    /\ PipelineIdle /\ ScanIdle

CallNormalizeBatch ==
    /\ mode = "batch" /\ pc = "input"
    /\ res' = normalizeBatchToken(arg)
    /\ pc' = "normalized"
    /\ UNCHANGED <<mode, arg, res2, pipeVars, calls, scanVars>>

CallNormalizeBatchAgain ==
    /\ mode = "batch" /\ pc = "normalized"
    /\ res2' = normalizeBatchToken(res)
    /\ pc' = "renormalized"
    /\ UNCHANGED <<mode, arg, res, pipeVars, calls, scanVars>>

CallFinalizeBatch ==
    /\ mode = "batch" /\ pc = "input"
    /\ res' = finalizeBatch(arg)
    /\ pc' = "finalized"
    /\ UNCHANGED <<mode, arg, res2, pipeVars, calls, scanVars>>

\* normalizeBatchToken up to the three swaps: the cleaned token before and
\* after them
CallRepairConfusions ==
    /\ mode = "batch" /\ pc = "input"
    /\ Truthy(arg)
    /\ res' = [before |-> UpperCleaned(JsString(arg)),
               after |-> ConfusionRepairs(UpperCleaned(JsString(arg)))]
    /\ pc' = "repaired"
    /\ UNCHANGED <<mode, arg, res2, pipeVars, calls, scanVars>>

NextBatch ==
    \/ CallNormalizeBatch \/ CallNormalizeBatchAgain \/ CallFinalizeBatch
    \/ CallRepairConfusions

SpecBatch == InitBatch /\ [][NextBatch]_vars

\* the shape ^[A-Z]{2,5} \d{4,6}$
IsBatchShape(s) ==
    \E k \in 2..5, d \in 4..6 :
        /\ Len(s) = k + 1 + d
        /\ \A i \in 1..k : s[i] \in UpperSet
        /\ s[k + 1] = " "
        /\ \A i \in (k + 2)..(k + 1 + d) : s[i] \in DigitSet

\* C6: every result of normalizeBatchToken and of finalizeBatch is null or
\* 2 to 5 uppercase letters, one space and 4 to 6 digits.
C6_BatchShape ==
    (mode = "batch" /\ pc \in {"normalized", "renormalized", "finalized"})
        => (res = Null \/ (res.t = "str" /\ IsBatchShape(res.v)))

\* a token that was repaired into the canonical shape
C6_Witness ==
    /\ mode = "batch" /\ pc = "normalized"
    /\ arg = Str(<<"F","B","L","S","L","-","2","2","0","9">>)
    /\ res = Str(<<"F","B","S","L"," ","2","2","0","9">>)

\* C8: normalizing a normalized token returns it unchanged.
C8_BatchIdempotent ==
    (mode = "batch" /\ pc = "renormalized") => res2 = res

(***************************************************************************)
(* The vote over the per-image texts, and over the same texts in another   *)
(* image order                                                             *)
(***************************************************************************)
T_AB1234 == <<"A","B"," ","1","2","3","4">>
T_CD5678 == <<"C","D"," ","5","6","7","8">>
T_ABC1234 == <<"A","B","C","-","1","2","3","4">>
T_BatchCD == <<"B","a","t","c","h"," ","N","o",":"," ","C","D","5","6","7","8">>
T_Noise == <<"B"," ","N"," ","O"," ","1"," ","2"," ","3"," ","4">>
T_TwoLines == T_ABC1234 \o <<"\n">> \o T_AB1234

VoteBlobs == {T_AB1234, T_CD5678, T_ABC1234, T_Noise, T_TwoLines}
VoteHints == {<<>>, <<T_BatchCD>>, <<<<"L","o","t">>, T_ABC1234>>}
VoteGuesses == {Undefined, Str(T_CD5678), Str(<<"a","b","1","2","3","4">>)}

VoteInputs ==
    [ocrTexts : UNION {[1..n -> VoteBlobs] : n \in 0..MaxImages},
     hintedLines : VoteHints,
     aiBatch : VoteGuesses,
     rxBatch : {Null, Str(T_CD5678)}]

\* the orders in which the list xs can be presented
Reorderings(xs) ==
    {[i \in 1..Len(xs) |-> xs[f[i]]] :
        f \in {g \in [1..Len(xs) -> 1..Len(xs)] :
                 \A i, j \in 1..Len(xs) : g[i] = g[j] => i = j}}

InitVote ==
    /\ mode = "vote"
    /\ pc = "input"
    /\ arg \in VoteInputs
    /\ res = Null
    /\ res2 = Null
    /\ PipelineIdle /\ ScanIdle

CallPickBestBatch ==
    /\ mode = "vote" /\ pc = "input"
    /\ res' = pickBestBatch(arg.ocrTexts, arg.hintedLines, arg.aiBatch, arg.rxBatch)
    /\ pc' = "voted"
    /\ UNCHANGED <<mode, arg, res2, pipeVars, calls, scanVars>>

CallPickBestBatchReordered ==
    /\ mode = "vote" /\ pc = "voted"
    /\ \E texts \in Reorderings(arg.ocrTexts) :
          res2' = pickBestBatch(texts, arg.hintedLines, arg.aiBatch, arg.rxBatch)
    /\ pc' = "revoted"
    /\ UNCHANGED <<mode, arg, res, pipeVars, calls, scanVars>>

NextVote == CallPickBestBatch \/ CallPickBestBatchReordered

SpecVote == InitVote /\ [][NextVote]_vars

\* C7: the winner of the vote does not depend on the order in which the
\* same candidates are presented.
C7_VoteOrderIndependent ==
    (mode = "vote" /\ pc = "revoted") => res2 = res

(***************************************************************************)
(* The date normalizer applied to a date token, and again to its result    *)
(***************************************************************************)
DateChunks ==
    { <<"O","c","t">>, <<"S","e","p","t"," ">>, <<"A","b">>, <<" ">>,
      <<"5">>, <<"5",","," ">>, <<"2","4">>, <<"7","0">>,
      <<"2","0","2","5">>, <<"2","0","2","5",".">>, <<"2","/">>, <<"9","-">> }

DateInputs == {Null} \cup {Str(s) : s \in ChunkStrings(DateChunks, MaxChunks)}
\* the surrounding OCR text: without a year, and with one
DateContexts == { <<>>, <<"M","f","g"," ","1","2","0","2","4"," ","2","0","3","0">> }
\* new Date().getFullYear()
CurrentYears == { <<"2","0","2","6">> }

InitDate ==
    /\ mode = "date"
    /\ pc = "input"
    /\ arg \in [date : DateInputs, ocrText : DateContexts, currentYear : CurrentYears]
    /\ res = Null
    /\ res2 = Null
    /\ PipelineIdle /\ ScanIdle

CallNormalizeDate ==
    /\ mode = "date" /\ pc = "input"
    /\ res' = processDate(arg.date, arg.ocrText, arg.currentYear)
    /\ pc' = "normalized"
    /\ UNCHANGED <<mode, arg, res2, pipeVars, calls, scanVars>>

CallNormalizeDateAgain ==
    /\ mode = "date" /\ pc = "normalized"
    /\ res2' = processDate(res, arg.ocrText, arg.currentYear)
    /\ pc' = "renormalized"
    /\ UNCHANGED <<mode, arg, res, pipeVars, calls, scanVars>>

NextDate == CallNormalizeDate \/ CallNormalizeDateAgain

SpecDate == InitDate /\ [][NextDate]_vars

\* the form YYYY-MM-DD
IsCanonicalDate(s) ==
    /\ Len(s) = 10
    /\ \A i \in {1, 2, 3, 4, 6, 7, 9, 10} : s[i] \in DigitSet
    /\ s[5] = "-" /\ s[8] = "-"

\* C9: normalizing a normalized date returns it unchanged, and a date
\* already of the form YYYY-MM-DD is returned unchanged.
C9_DateIdempotent ==
    /\ (mode = "date" /\ pc = "renormalized") => res2 = res
    /\ (mode = "date" /\ pc = "normalized" /\ arg.date.t = "str"
          /\ IsCanonicalDate(arg.date.v)) => res = arg.date

\* a partial token was completed and a second pass left the date alone
C9_Witness ==
    /\ mode = "date" /\ pc = "renormalized"
    /\ arg.date = Str(<<"O","c","t","5">>)
    /\ res = Str(<<"2","0","2","4","-","1","0","-","0","5">>)
    /\ res2 = res

(***************************************************************************)
(* Dosage form and liquid metadata (app/api/inventory/route.ts)            *)
(***************************************************************************)
\* Number(d) of a digit string, and String(Number(d))
RECURSIVE NumberOf(_)
NumberOf(d) ==
    IF d = <<>> THEN 0 ELSE 10 * NumberOf(SubSeq(d, 1, Len(d) - 1)) + DigitValue(d[Len(d)])
RECURSIVE StripZeros(_)
StripZeros(d) == IF Len(d) > 1 /\ Head(d) = "0" THEN StripZeros(Tail(d)) ELSE d
NumberValue(d) == Num(StripZeros(d))
\* String(n) of a natural number
RECURSIVE DigitsOf(_)
DigitsOf(n) ==
    IF n < 10 THEN <<DigitSeq[n + 1]>>
    ELSE DigitsOf(n \div 10) \o <<DigitSeq[(n % 10) + 1]>>

\* /(\d)\s*m<c>\b/gi matched at p: the position of its last character, 0
\* when it does not match
UnitTypoEnd(s, p, c) ==
    LET m == SkipSpaces(s, p + 1)
    IN  IF /\ At(s, p) \in DigitSet
           /\ LowCh(At(s, m)) = "m" /\ LowCh(At(s, m + 1)) = c
           /\ WordBoundary(s, m + 2)
        THEN m + 1 ELSE 0

\* s.replace(/(\d)\s*m<c>\b/gi, "$1 mg"), from position p on
RECURSIVE FixUnit(_, _, _)
FixUnit(s, p, c) ==
    IF p > Len(s) THEN <<>>
    ELSE IF UnitTypoEnd(s, p, c) > 0
         THEN <<s[p], " ", "m", "g">> \o FixUnit(s, UnitTypoEnd(s, p, c) + 1, c)
         ELSE <<s[p]>> \o FixUnit(s, p + 1, c)

\* s.replace(/\b1O0\b/g, "100")
FixOneOhZero(s) ==
    [i \in 1..Len(s) |->
        IF s[i] = "O" /\ WordEnd(s, i - 1, <<"1","O","0">>) > 0 THEN "0" ELSE s[i]]

\* s.replace(/\bO(\d)\b/g, "0$1")
FixLetterO(s) ==
    [i \in 1..Len(s) |->
        IF /\ s[i] = "O" /\ WordBoundary(s, i)
           /\ At(s, i + 1) \in DigitSet /\ WordBoundary(s, i + 2)
        THEN "0" ELSE s[i]]

\* normalizeOcrNoise(s)
normalizeOcrNoise(s) ==
    FixLetterO(FixOneOhZero(FixUnit(FixUnit(s, 1, "y"), 1, "q")))

\* /\bw(s)?\b/ somewhere in s, for a lower-case word w
HasWordOrPlural(s, w) ==
    \E p \in 1..Len(s) :
        /\ WordBoundary(s, p)
        /\ \A i \in 1..Len(w) : At(s, p + i - 1) = w[i]
        /\ \/ WordBoundary(s, p + Len(w))
           \/ At(s, p + Len(w)) = "s" /\ WordBoundary(s, p + Len(w) + 1)
\* /\bw\b/ somewhere in s
HasWord(s, w) == \E p \in 1..Len(s) : WordEnd(s, p, w) > 0

\* guessDosageForm(label, blob): null is the empty string here
guessDosageForm(label, blob) ==
    LET s == toLowerCase(label \o <<" ">> \o blob)
    IN  IF HasWordOrPlural(s, <<"t","a","b","l","e","t">>) THEN <<"T","A","B","L","E","T">>
        ELSE IF HasWordOrPlural(s, <<"c","a","p","s","u","l","e">>) \/ HasWordOrPlural(s, <<"c","a","p">>)
             THEN <<"C","A","P","S","U","L","E">>
        ELSE IF HasWord(s, <<"s","y","r","u","p">>) THEN <<"S","Y","R","U","P">>
        ELSE IF HasWord(s, <<"s","u","s","p","e","n","s","i","o","n">>) THEN <<"S","U","S","P","E","N","S","I","O","N">>
        ELSE IF HasWord(s, <<"s","o","l","u","t","i","o","n">>) THEN <<"S","O","L","U","T","I","O","N">>
        ELSE IF HasWordOrPlural(s, <<"d","r","o","p">>) THEN <<"D","R","O","P","S">>
        ELSE IF HasWord(s, <<"i","n","j","e","c","t","i","o","n">>) THEN <<"I","N","J","E","C","T","I","O","N">>
        ELSE IF HasWord(s, <<"o","i","n","t","m","e","n","t">>) THEN <<"O","I","N","T","M","E","N","T">>
        ELSE IF HasWord(s, <<"c","r","e","a","m">>) THEN <<"C","R","E","A","M">>
        ELSE IF HasWord(s, <<"g","e","l">>) THEN <<"G","E","L">>
        ELSE <<>>

LiquidForms == {<<"S","Y","R","U","P">>, <<"S","U","S","P","E","N","S","I","O","N">>, <<"S","O","L","U","T","I","O","N">>, <<"D","R","O","P","S">>}

MinVolumeDigits == 2
MaxVolumeDigits == 4
MaxDoseDigits == 2
MinBottleMl == 30
MaxBottleMl == 500

\* the length of the digit run that starts at p
DigitRun(s, p) == RunEnd(s, p, DigitSet) - p + 1

\* /(\d{2,4})\s*ml\b/i matched at p: the position of its last character, 0
\* when it does not match (the digits must end where the run ends)
VolumeEnd(s, p) ==
    LET m == SkipSpaces(s, p + DigitRun(s, p))
    IN  IF /\ DigitRun(s, p) \in MinVolumeDigits..MaxVolumeDigits
           /\ LitAt(s, m, <<"m","l">>) /\ WordBoundary(s, m + 2)
        THEN m + 1 ELSE 0

\* [...t.matchAll(/(\d{2,4})\s*ml\b/gi)].map(m => Number(m[1])), from p on
RECURSIVE VolumeMatches(_, _)
VolumeMatches(s, p) ==
    IF p > Len(s) THEN <<>>
    ELSE IF VolumeEnd(s, p) > 0
         THEN <<Slice(s, p, p + DigitRun(s, p) - 1)>>
                  \o VolumeMatches(s, VolumeEnd(s, p) + 1)
         ELSE VolumeMatches(s, p + 1)

\* every volume counts as a bottle size
PlausibleVolumes_All(vols) == vols

\* volMatches.filter(v => v >= 30 && v <= 500)
PlausibleVolumes(vols) ==
    SelectSeq(vols, LAMBDA d : NumberOf(d) >= MinBottleMl /\ NumberOf(d) <= MaxBottleMl)

\* /(\d{1,2})\s*[x<times>]\s*\d{2,4}\s*ml/i matched at p
PackAt(s, p) ==
    LET x == SkipSpaces(s, p + DigitRun(s, p))
        v == SkipSpaces(s, x + 1)
        m == SkipSpaces(s, v + DigitRun(s, v))
    IN  /\ DigitRun(s, p) \in 1..MaxDoseDigits
        /\ LowCh(At(s, x)) \in {"x", "times"}
        /\ DigitRun(s, v) \in MinVolumeDigits..MaxVolumeDigits
        /\ LitAt(s, m, <<"m","l">>)

\* /\b<word>\s*(\d{1,2})\s*ml\b/i matched at p: the position of the digits,
\* 0 when it does not match
DoseAfterWordAt(s, p, word) ==
    LET d == SkipSpaces(s, p + Len(word))
        m == SkipSpaces(s, d + DigitRun(s, d))
    IN  IF /\ WordBoundary(s, p) /\ LitAt(s, p, word)
           /\ DigitRun(s, d) \in 1..MaxDoseDigits
           /\ LitAt(s, m, <<"m","l">>) /\ WordBoundary(s, m + 2)
        THEN d ELSE 0

\* /\b(\d{1,2})\s*ml\s*contains\b/i matched at p
DoseContainsAt(s, p) ==
    LET m == SkipSpaces(s, p + DigitRun(s, p))
        c == SkipSpaces(s, m + 2)
    IN  /\ WordBoundary(s, p)
        /\ DigitRun(s, p) \in 1..MaxDoseDigits
        /\ LitAt(s, m, <<"m","l">>)
        /\ LitAt(s, c, <<"c","o","n","t","a","i","n","s">>) /\ WordBoundary(s, c + 8)

\* the digits of the first match of /\b<word>\s*(\d{1,2})\s*ml\b/i at or
\* after p, <<>> when there is none
RECURSIVE DoseAfterWord(_, _, _)
DoseAfterWord(s, p, word) ==
    IF p > Len(s) THEN <<>>
    ELSE IF DoseAfterWordAt(s, p, word) > 0
         THEN Slice(s, DoseAfterWordAt(s, p, word),
                    DoseAfterWordAt(s, p, word) + DigitRun(s, DoseAfterWordAt(s, p, word)) - 1)
         ELSE DoseAfterWord(s, p + 1, word)

\* the digits of the first match of /\b(\d{1,2})\s*ml\s*contains\b/i at or
\* after p
RECURSIVE DoseContains(_, _)
DoseContains(s, p) ==
    IF p > Len(s) THEN <<>>
    ELSE IF DoseContainsAt(s, p) THEN Slice(s, p, p + DigitRun(s, p) - 1)
    ELSE DoseContains(s, p + 1)

\* mDose[1]: the three dose patterns in the order the source tries them
DoseDigits(s) ==
    IF DoseAfterWord(s, 1, <<"p","e","r">>) # <<>> THEN DoseAfterWord(s, 1, <<"p","e","r">>)
    ELSE IF DoseAfterWord(s, 1, <<"e","a","c","h">>) # <<>>
         THEN DoseAfterWord(s, 1, <<"e","a","c","h">>)
    ELSE DoseContains(s, 1)

\* the digits of mPack[1], <<>> when the pack pattern matches nowhere
RECURSIVE PackDigits(_, _)
PackDigits(s, p) ==
    IF p > Len(s) THEN <<>>
    ELSE IF PackAt(s, p) THEN Slice(s, p, p + DigitRun(s, p) - 1)
    ELSE PackDigits(s, p + 1)

\* the length of (\d+(?:[.,]\d+)?) from p, 0 when no digit stands there
AmountLength(s, p) ==
    LET n == DigitRun(s, p)
        f == DigitRun(s, p + n + 1)
    IN  IF n > 0 /\ At(s, p + n) \in {".", ","} /\ f > 0 THEN n + 1 + f ELSE n

\* /(\d+(?:[.,]\d+)?)\s*mg\s*(?:\/|per)\s*<n>\s*ml/i matched at p
ConcAt(s, p, n) ==
    LET g == SkipSpaces(s, p + AmountLength(s, p))
        o == SkipSpaces(s, g + 2)
        v == SkipSpaces(s, IF At(s, o) = "/" THEN o + 1 ELSE o + 3)
        m == SkipSpaces(s, v + Len(n))
    IN  /\ AmountLength(s, p) > 0
        /\ LitAt(s, g, <<"m","g">>)
        /\ (At(s, o) = "/" \/ LitAt(s, o, <<"p","e","r">>))
        /\ LitAt(s, v, n)
        /\ LitAt(s, m, <<"m","l">>)

\* group 1 of the first match of that pattern at or after p, <<>> when
\* there is none
RECURSIVE ConcAmount(_, _, _)
ConcAmount(s, p, n) ==
    IF p > Len(s) THEN <<>>
    ELSE IF ConcAt(s, p, n) THEN Slice(s, p, p + AmountLength(s, p) - 1)
    ELSE ConcAmount(s, p + 1, n)

RECURSIVE Pow10(_)
Pow10(k) == IF k = 0 THEN 1 ELSE 10 * Pow10(k - 1)
RECURSIVE DropEndZeros(_)
DropEndZeros(d) ==
    IF d # <<>> /\ d[Len(d)] = "0" THEN DropEndZeros(SubSeq(d, 1, Len(d) - 1)) ELSE d

\* the number with integer digits int and fraction digits frac, written as
\* String(number) writes it
Decimal(int, frac) ==
    Num(IF DropEndZeros(frac) = <<>> THEN StripZeros(int)
        ELSE StripZeros(int) \o <<".">> \o DropEndZeros(frac))

\* the integer and the fraction digits of an amount "12", "12.5" or "12,5"
IntDigits(a)  == Slice(a, 1, DigitRun(a, 1))
FracDigits(a) == Slice(a, DigitRun(a, 1) + 2, Len(a))

\* Number(m[1].replace(",", "."))
AmountValue(a) == Decimal(IntDigits(a), FracDigits(a))

\* Math.round((v / 2) * 1000) / 1000, in thousandths and exact arithmetic
HalfAmount(a) ==
    LET k == Len(FracDigits(a))
        n == NumberOf(IntDigits(a) \o FracDigits(a))
        thousandths ==
            IF k <= 2 THEN 5 * n * Pow10(2 - k)
            ELSE (10 * n + Pow10(k - 2)) \div (2 * Pow10(k - 2))
        frac == DigitsOf(1000 + (thousandths % 1000))
    IN  Decimal(DigitsOf(thousandths \div 1000), Tail(frac))

\* concentrationMgPer5ml: the mg per 5 ml, else half the mg per 10 ml
ConcentrationPer5(t) ==
    IF ConcAmount(t, 1, <<"5">>) # <<>> THEN AmountValue(ConcAmount(t, 1, <<"5">>))
    ELSE IF ConcAmount(t, 1, <<"1","0">>) # <<>>
         THEN HalfAmount(ConcAmount(t, 1, <<"1","0">>))
    ELSE Undefined

\* /\bper\s*<n>\s*ml/i matched at p: the position of its last character, 0
\* when it does not match
PerEnd(s, p, n) ==
    LET d == SkipSpaces(s, p + 3)
        m == SkipSpaces(s, d + Len(n))
    IN  IF /\ WordBoundary(s, p) /\ LitAt(s, p, <<"p","e","r">>)
           /\ LitAt(s, d, n) /\ LitAt(s, m, <<"m","l">>)
        THEN m + 1 ELSE 0

\* /\beach\s*\d{1,2}\s*ml/i matched at p, likewise
EachEnd(s, p) ==
    LET d == SkipSpaces(s, p + 4)
        m == SkipSpaces(s, d + DigitRun(s, d))
    IN  IF /\ WordBoundary(s, p) /\ LitAt(s, p, <<"e","a","c","h">>)
           /\ DigitRun(s, d) \in 1..MaxDoseDigits /\ LitAt(s, m, <<"m","l">>)
        THEN m + 1 ELSE 0

\* the position after the last line break before p
RECURSIVE LineStart(_, _)
LineStart(s, p) == IF p <= 1 \/ s[p - 1] = "\n" THEN p ELSE LineStart(s, p - 1)

\* group 1 of /([^\n]*?<phrase>[^\n]*)/i for the phrase that starts at p and
\* ends at e: from the start of the line of p to the end of the line of e
LineAround(s, p, e) == Slice(s, LineStart(s, p), LineEnd(s, e + 1) - 1)

\* the line of the first "per <n> ml" at or after p, <<>> when there is none
RECURSIVE PerLine(_, _, _)
PerLine(s, p, n) ==
    IF p > Len(s) THEN <<>>
    ELSE IF PerEnd(s, p, n) > 0 THEN LineAround(s, p, PerEnd(s, p, n))
    ELSE PerLine(s, p + 1, n)

\* the line of the first "each <d> ml" at or after p
RECURSIVE EachLine(_, _)
EachLine(s, p) ==
    IF p > Len(s) THEN <<>>
    ELSE IF EachEnd(s, p) > 0 THEN LineAround(s, p, EachEnd(s, p))
    ELSE EachLine(s, p + 1)

\* concentrationLabel: mLine[1].trim() of the first pattern that matches
ConcentrationLabel(t) ==
    IF PerLine(t, 1, <<"5">>) # <<>> THEN Str(trim(PerLine(t, 1, <<"5">>)))
    ELSE IF PerLine(t, 1, <<"1","0">>) # <<>> THEN Str(trim(PerLine(t, 1, <<"1","0">>)))
    ELSE IF EachLine(t, 1) # <<>> THEN Str(trim(EachLine(t, 1)))
    ELSE Undefined

\* parseLiquidMeta(raw)
parseLiquidMeta(raw) ==
    LET t    == normalizeOcrNoise(raw)
        vols == VolumeMatches(t, 1)
        dose == DoseDigits(t)
    IN  [bottleVolumeMl |->
             IF vols = <<>> THEN Undefined
             ELSE IF PlausibleVolumes(vols) # <<>>
                  THEN NumberValue(PlausibleVolumes(vols)[1])
                  ELSE Null,
         bottlesPerPack |->
             IF PackDigits(t, 1) = <<>> THEN Undefined
             ELSE NumberValue(PackDigits(t, 1)),
         doseMl |-> IF dose = <<>> THEN Undefined ELSE NumberValue(dose),
         concentrationMgPer5ml |-> ConcentrationPer5(t),
         concentrationLabel |-> ConcentrationLabel(t)]

\* POST, step 4 and the liquid fields of extractedData: dosageLabel is
\* extracted.dosage_form_on_label (a string, <<>> for null), blob is
\* combinedText
LiquidFields(dosageLabel, blob) ==
    LET decided == guessDosageForm(dosageLabel, blob)
        dosageFormEnum == IF decided # <<>> THEN decided ELSE toUpperCase(dosageLabel)
        isLiquid == dosageFormEnum \in LiquidForms
        liquid == parseLiquidMeta(blob)
    IN  [bottle_volume_ml |-> IF isLiquid THEN Coalesce(liquid.bottleVolumeMl, Null) ELSE Null,
         bottles_per_pack |-> IF isLiquid
                              THEN Coalesce(liquid.bottlesPerPack, Num(<<"1">>))
                              ELSE Null,
         dose_ml |-> IF isLiquid THEN Coalesce(liquid.doseMl, Null) ELSE Null,
         concentration_mg_per_5ml |->
             IF isLiquid THEN Coalesce(liquid.concentrationMgPer5ml, Null) ELSE Null,
         concentration_label |->
             IF isLiquid THEN Coalesce(liquid.concentrationLabel, Null) ELSE Null,
         dosage_form |-> IF dosageFormEnum # <<>> THEN Str(dosageFormEnum) ELSE Null]

(***************************************************************************)
(* The liquid parser on label texts: at most MaxChunks different label     *)
(* fragments, one per line.  Each fragment records what a reader takes from it: the   *)
(* D of a "per D ml" dose phrase and the V of a "V ml" volume.             *)
(***************************************************************************)
Frag(text, per, volume, form) ==
    [text |-> text, per |-> per, volume |-> volume, form |-> form]
F_Per5    == Frag(<<"1","2","5"," ","m","g"," ","p","e","r"," ","5"," ","m","l">>, <<"5">>, <<>>, "")
F_Per10   == Frag(<<"P","e","r"," ","1","0","m","l"," ","5","m","q">>, <<"1","0">>, <<>>, "")
F_Per50   == Frag(<<"P","e","r"," ","5","0"," ","m","l">>, <<"5","0">>, <<>>, "")
F_Each15  == Frag(<<"E","a","c","h"," ","1","5"," ","m","l"," ","c","o","n","t","a","i","n","s">>, <<>>, <<>>, "")
F_Vol200  == Frag(<<"2","0","0"," ","m","l">>, <<>>, <<"2","0","0">>, "")
F_Vol60   == Frag(<<"N","e","t"," ","6","0","M","L">>, <<>>, <<"6","0">>, "")
F_Pack    == Frag(<<"2"," ","x"," ","1","0","0"," ","m","l">>, <<>>, <<"1","0","0">>, "")
F_Litre   == Frag(<<"1","0","0","0"," ","m","l">>, <<>>, <<>>, "")
F_Syrup   == Frag(<<"C","o","u","g","h"," ","S","y","r","u","p">>, <<>>, <<>>, "liquid")
F_Tablets == Frag(<<"1","0"," ","T","a","b","l","e","t","s">>, <<>>, <<>>, "solid")
LiquidFragments ==
    {F_Per5, F_Per10, F_Per50, F_Each15, F_Vol200, F_Vol60, F_Pack, F_Litre, F_Syrup,
     F_Tablets}

LiquidLabels == {<<>>, <<"O","r","a","l"," ","S","u","s","p","e","n","s","i","o","n">>}

LiquidInputs ==
    [label : LiquidLabels,
     parts : {f \in UNION {[1..m -> LiquidFragments] : m \in 1..MaxChunks} :
                  \A i, j \in 1..Len(f) : f[i] = f[j] => i = j}]

\* combinedText: the text of each part followed by a line break
RECURSIVE BlobOf(_)
BlobOf(parts) ==
    IF parts = <<>> THEN <<>> ELSE Head(parts).text \o <<"\n">> \o BlobOf(Tail(parts))

InitLiquid ==
    /\ mode = "liquid"
    /\ pc = "input"
    /\ arg \in LiquidInputs
    /\ res = Null
    /\ res2 = Null
    /\ PipelineIdle /\ ScanIdle

CallParseLiquidMeta ==
    /\ mode = "liquid" /\ pc = "input"
    /\ res' = parseLiquidMeta(BlobOf(arg.parts))
    /\ pc' = "parsed"
    /\ UNCHANGED <<mode, arg, res2, pipeVars, calls, scanVars>>

CallLiquidFields ==
    /\ mode = "liquid" /\ pc = "parsed"
    /\ res2' = LiquidFields(arg.label, BlobOf(arg.parts))
    /\ pc' = "answered"
    /\ UNCHANGED <<mode, arg, res, pipeVars, calls, scanVars>>

NextLiquid == CallParseLiquidMeta \/ CallLiquidFields

SpecLiquid == InitLiquid /\ [][NextLiquid]_vars

\* the dose phrases and the bottle volumes a reader finds, in reading order
DosesRead(parts)   == SelectSeq([i \in 1..Len(parts) |-> parts[i].per], LAMBDA d : d # <<>>)
VolumesRead(parts) == SelectSeq([i \in 1..Len(parts) |-> parts[i].volume], LAMBDA d : d # <<>>)
ReadAsLiquid(a) ==
    /\ \A i \in 1..Len(a.parts) : a.parts[i].form # "solid"
    /\ \/ a.label # <<>>
       \/ \E i \in 1..Len(a.parts) : a.parts[i].form = "liquid"

\* the label text holds a dose phrase "per D ml", D at most 20, and a
\* separate volume "V ml", V between 30 and 500
DoseAndVolume(parts) ==
    /\ DosesRead(parts) # <<>> /\ VolumesRead(parts) # <<>>
    /\ \A i \in 1..Len(DosesRead(parts)) : NumberOf(DosesRead(parts)[i]) <= 20
    /\ \A i \in 1..Len(VolumesRead(parts)) : NumberOf(VolumesRead(parts)[i]) \in 30..500

\* C11: for a label text with a dose phrase "per D ml", D at most 20, and a
\* separate volume "V ml", V between 30 and 500, parseLiquidMeta returns
\* doseMl = D and bottleVolumeMl = V (of several such phrases, the first
\* one read), and the scan response of a liquid carries the same two numbers.
C11_DoseAndVolumeApart ==
    (mode = "liquid" /\ DoseAndVolume(arg.parts)) =>
        /\ pc \in {"parsed", "answered"} =>
              /\ res.doseMl = Num(DosesRead(arg.parts)[1])
              /\ res.bottleVolumeMl = Num(VolumesRead(arg.parts)[1])
        /\ (pc = "answered" /\ ReadAsLiquid(arg)) =>
              /\ res2.dose_ml = Num(DosesRead(arg.parts)[1])
              /\ res2.bottle_volume_ml = Num(VolumesRead(arg.parts)[1])

C11_Witness ==
    /\ mode = "liquid" /\ pc = "answered"
    /\ arg.parts = <<F_Per10, F_Syrup, F_Vol200>>
    /\ res.doseMl = Num(<<"1","0">>) /\ res.bottleVolumeMl = Num(<<"2","0","0">>)
    /\ res2.dose_ml = Num(<<"1","0">>) /\ res2.bottle_volume_ml = Num(<<"2","0","0">>)

(***************************************************************************)
(* ocrBuffer: the three implementations (lib/ocr.ts, lib/auth.ts and       *)
(* lib/scanner/tesseract-node.cjs), one step per awaited call              *)
(***************************************************************************)
\* s.split(c) for a one-character separator c
RECURSIVE Pieces(_, _)
Pieces(s, c) ==
    IF \E i \in 1..Len(s) : s[i] = c
    THEN LET i == CHOOSE k \in 1..Len(s) : s[k] = c /\ \A j \in 1..(k - 1) : s[j] # c
         IN  <<SubSeq(s, 1, i - 1)>> \o Pieces(SubSeq(s, i + 1, Len(s)), c)
    ELSE <<s>>

\* s.split(/[<seps>]+/).filter(Boolean): the runs of other characters
RECURSIVE Runs(_, _)
Runs(s, seps) ==
    IF s = <<>> THEN <<>>
    ELSE IF Head(s) \in seps THEN Runs(Tail(s), seps)
    ELSE LET e == RunEnd(s, 1, {s[i] : i \in 1..Len(s)} \ seps)
         IN  <<SubSeq(s, 1, e)>> \o Runs(SubSeq(s, e + 1, Len(s)), seps)

TrimEach(xs) == [i \in 1..Len(xs) |-> trim(xs[i])]
NonEmpty(xs) == SelectSeq(xs, LAMBDA x : x # <<>>)
Eng == <<"e","n","g">>

\* lib/ocr.ts normalizeLangs(lang), for a string
normalizeLangs(lang) ==
    LET s == trim(IF lang = <<>> THEN Eng ELSE lang)
    IN  IF s # <<>> THEN Join(Runs(s, SpaceSet \cup {"+", ","}), <<"+">>) ELSE Eng

\* lib/auth.ts: langsArr joined with '+', for a string
authLangs(lang) ==
    Join(IF \E i \in 1..Len(lang) : lang[i] = "+"
            THEN NonEmpty(TrimEach(Pieces(lang, "+")))
         ELSE IF \E i \in 1..Len(lang) : lang[i] = ","
            THEN NonEmpty(TrimEach(Pieces(lang, ",")))
         ELSE IF \E i \in 1..Len(lang) : lang[i] = " "
            THEN NonEmpty(TrimEach(Runs(lang, SpaceSet)))
         ELSE <<trim(lang)>>,
         <<"+">>)

OcrImplementations == {"lib/ocr.ts", "lib/auth.ts", "tesseract-node.cjs"}
\* the implementations that wrap the work in try/finally
Guarded == {"lib/ocr.ts", "lib/auth.ts"}
LangInputs == {Eng, <<"e","n","g","+","n","e","p">>, <<"e","n","g",","," ","n","e","p">>, <<" ","n","e","p"," "," ","h","i","n"," ">>, <<>>}
\* what recognize resolves to: data.text, or no data
RecognizedTexts == {Undefined, Str(<<>>), Str(<<"B","a","t","c","h"," ","N","o",":"," ","A","B"," ","1","2","3","4">>)}

NoOutcome == [langs |-> <<>>, settled |-> "pending", text |-> Undefined, error |-> ""]

InitWorker ==
    /\ mode = "worker"
    /\ pc = "entry"
    /\ arg \in [impl : OcrImplementations, lang : LangInputs]
    /\ res = NoOutcome
    /\ res2 = Null
    /\ PipelineIdle /\ ScanIdle

\* an awaited call throws: inside try/finally the error waits for the
\* finally block, otherwise it ends the call
Throws(step) ==
    /\ IF arg.impl \in Guarded /\ step # "createWorker"
       THEN pc' = "terminate" /\ res' = [res EXCEPT !.error = step]
       ELSE pc' = "done" /\ res' = [res EXCEPT !.settled = "rejected", !.error = step]
    /\ UNCHANGED <<mode, arg, res2, worker, extracted, ocrResults, response,
                   pipeVars, calls>>

CreateWorker ==
    /\ mode = "worker" /\ pc = "entry"
    /\ worker' = "live"
    /\ pc' = IF arg.impl = "lib/ocr.ts" THEN "recognize" ELSE "loadLanguage"
    /\ res' = [res EXCEPT !.langs =
                  CASE arg.impl = "lib/ocr.ts" -> normalizeLangs(arg.lang)
                    [] arg.impl = "lib/auth.ts" -> authLangs(arg.lang)
                    [] OTHER -> Eng]
    /\ UNCHANGED <<mode, arg, res2, extracted, ocrResults, response, pipeVars, calls>>

CreateWorkerFails == mode = "worker" /\ pc = "entry" /\ Throws("createWorker")

LoadLanguage ==
    /\ mode = "worker" /\ pc = "loadLanguage"
    /\ pc' = "initialize"
    /\ UNCHANGED <<mode, arg, res, res2, scanVars, pipeVars, calls>>

LoadLanguageFails == mode = "worker" /\ pc = "loadLanguage" /\ Throws("loadLanguage")

Initialize ==
    /\ mode = "worker" /\ pc = "initialize"
    /\ pc' = "recognize"
    /\ UNCHANGED <<mode, arg, res, res2, scanVars, pipeVars, calls>>

InitializeFails == mode = "worker" /\ pc = "initialize" /\ Throws("initialize")

\* const { data } = await worker.recognize(buf): the text is data?.text ?? ''
Recognize ==
    /\ mode = "worker" /\ pc = "recognize"
    /\ \E text \in RecognizedTexts :
          res' = [res EXCEPT !.text = Coalesce(text, Str(<<>>))]
    /\ pc' = "terminate"
    /\ UNCHANGED <<mode, arg, res2, scanVars, pipeVars, calls>>

RecognizeFails == mode = "worker" /\ pc = "recognize" /\ Throws("recognize")

\* how the call ends once terminate is over
Settled(o) ==
    [o EXCEPT !.settled = IF o.error = "" THEN "resolved" ELSE "rejected"]

Terminate ==
    /\ mode = "worker" /\ pc = "terminate"
    /\ worker' = "terminated"
    /\ res' = Settled(res)
    /\ pc' = "done"
    /\ UNCHANGED <<mode, arg, res2, extracted, ocrResults, response, pipeVars, calls>>

\* worker.terminate() throws: swallowed inside the finally block, and
\* the error of the call where there is none
TerminateFails ==
    /\ mode = "worker" /\ pc = "terminate"
    /\ worker' = "terminateFailed"
    /\ res' = IF arg.impl \in Guarded THEN Settled(res)
              ELSE [res EXCEPT !.settled = "rejected", !.error = "terminate"]
    /\ pc' = "done"
    /\ UNCHANGED <<mode, arg, res2, extracted, ocrResults, response, pipeVars, calls>>

NextWorker ==
    \/ CreateWorker \/ CreateWorkerFails
    \/ LoadLanguage \/ LoadLanguageFails
    \/ Initialize \/ InitializeFails
    \/ Recognize \/ RecognizeFails
    \/ Terminate \/ TerminateFails

SpecWorker == InitWorker /\ [][NextWorker]_vars

\* C12: when an ocrBuffer call has completed, the worker it created has been
\* terminated (terminate was called on it), whether recognize succeeded or
\* recognize or language loading threw, and an error of terminate itself is
\* not the error of the call.
C12_WorkerTerminated ==
    (mode = "worker" /\ pc = "done") =>
        /\ worker # "live"
        /\ res.error # "terminate"

(***************************************************************************)
(* Properties of the pipeline: OCR failures, the text-model call, the      *)
(* regex extractor and the vote                                            *)
(***************************************************************************)
\* performOCR threw on at least one image of the finished run
SomeOcrFailed == TextDone /\ Len(perImageTexts) < images

\* C13: a run in which performOCR threw on an image still went through every
\* image (the failed one contributing no text) and ended with a returned
\* record, not with an error.
C13_OcrFailureTolerated ==
    SomeOcrFailed =>
        /\ imageIndex = images /\ calls.ocr = images
        /\ result.status = "returned"

(***************************************************************************)
(* Pack information (utils/aiExtraction.js)                                *)
(***************************************************************************)
PackUnits == << <<"t","a","b">>, <<"t","a","b","s">>, <<"t","a","b","l","e","t">>, <<"t","a","b","l","e","t","s">>, <<"c","a","p">>, <<"c","a","p","s">>, <<"c","a","p","s","u","l","e","s">> >>
MaxPackDigits == 3

\* (?:TAB|TABS|TABLET|TABLETS|CAP|CAPS|CAPSULES) matched at p: the positions
\* after the ways it can match
UnitEnds(s, p) ==
    {p + Len(PackUnits[u]) : u \in {v \in 1..Len(PackUnits) : LitAt(s, p, PackUnits[v])}}

\* /\b(\d{1,3})\s*[xX<times>]\s*(\d{1,3})\s*(?:TAB|...)\b/i matched at p: the
\* position of the second number, 0 when it does not match
PackTimesAt(s, p) ==
    LET x == SkipSpaces(s, p + DigitRun(s, p))
        n == SkipSpaces(s, x + 1)
        u == SkipSpaces(s, n + DigitRun(s, n))
    IN  IF /\ WordBoundary(s, p) /\ DigitRun(s, p) \in 1..MaxPackDigits
           /\ LowCh(At(s, x)) \in {"x", "times"}
           /\ DigitRun(s, n) \in 1..MaxPackDigits
           /\ \E e \in UnitEnds(s, u) : WordBoundary(s, e)
        THEN n ELSE 0

\* /\b(\d{1,3})\s*(?:TAB|...)\s*[xX<times>]\s*(\d{1,3})\b/i matched at p: the
\* position of the second number, 0 when it does not match
UnitTimesAt(s, p) ==
    LET u == SkipSpaces(s, p + DigitRun(s, p))
        Second(e) == SkipSpaces(s, SkipSpaces(s, e) + 1)
        Fits(e) == /\ LowCh(At(s, SkipSpaces(s, e))) \in {"x", "times"}
                   /\ DigitRun(s, Second(e)) \in 1..MaxPackDigits
                   /\ WordBoundary(s, Second(e) + DigitRun(s, Second(e)))
    IN  IF /\ WordBoundary(s, p) /\ DigitRun(s, p) \in 1..MaxPackDigits
           /\ \E e \in UnitEnds(s, u) : Fits(e)
        THEN Second(CHOOSE e \in UnitEnds(s, u) : Fits(e)) ELSE 0

\* /\b(\d{1,3})\s*(?:TAB|...)\b/i matched at p
UnitAt(s, p) ==
    /\ WordBoundary(s, p) /\ DigitRun(s, p) \in 1..MaxPackDigits
    /\ \E e \in UnitEnds(s, SkipSpaces(s, p + DigitRun(s, p))) : WordBoundary(s, e)

\* the digits at p
DigitsAt(s, p) == Slice(s, p, p + DigitRun(s, p) - 1)

\* the first position at or after p where the pattern matches, 0 when none
RECURSIVE FirstPackTimes(_, _)
FirstPackTimes(s, p) ==
    IF p > Len(s) THEN 0
    ELSE IF PackTimesAt(s, p) > 0 THEN p ELSE FirstPackTimes(s, p + 1)
RECURSIVE FirstUnitTimes(_, _)
FirstUnitTimes(s, p) ==
    IF p > Len(s) THEN 0
    ELSE IF UnitTimesAt(s, p) > 0 THEN p ELSE FirstUnitTimes(s, p + 1)
RECURSIVE FirstUnit(_, _)
FirstUnit(s, p) ==
    IF p > Len(s) THEN 0
    ELSE IF UnitAt(s, p) THEN p ELSE FirstUnit(s, p + 1)

\* the lone pattern tried first
extractPackInfo_LoneFirst(text) ==
    IF FirstUnit(text, 1) > 0
    THEN [slipsCount |-> Null,
          tabletsPerSlip |-> NumberValue(DigitsAt(text, FirstUnit(text, 1)))]
    ELSE [slipsCount |-> Null, tabletsPerSlip |-> Null]

\* extractPackInfo(text)
extractPackInfo(text) ==
    LET a == FirstPackTimes(text, 1)
        b == FirstUnitTimes(text, 1)
        c == FirstUnit(text, 1)
    IN  IF a > 0
        THEN [slipsCount |-> NumberValue(DigitsAt(text, a)),
              tabletsPerSlip |-> NumberValue(DigitsAt(text, PackTimesAt(text, a)))]
        ELSE IF b > 0
        THEN [slipsCount |-> NumberValue(DigitsAt(text, UnitTimesAt(text, b))),
              tabletsPerSlip |-> NumberValue(DigitsAt(text, b))]
        ELSE IF c > 0
        THEN [slipsCount |-> Null, tabletsPerSlip |-> NumberValue(DigitsAt(text, c))]
        ELSE [slipsCount |-> Null, tabletsPerSlip |-> Null]

\* mergeResults, packaging: ai?.slips_count ?? rx.slips_count ?? null
mergePack(aiPack, rxPack) ==
    [slips_count |-> Coalesce(Coalesce(aiPack.slips_count, rxPack.slipsCount), Null),
     tablets_per_slip |->
         Coalesce(Coalesce(aiPack.tablets_per_slip, rxPack.tabletsPerSlip), Null)]

(***************************************************************************)
(* The scan entry point: POST of app/api/inventory/route.ts.  The pipeline *)
(* it awaits is the one of Spec; here it is one call that returns one of   *)
(* the records a run can end with, or throws.                              *)
(***************************************************************************)
MinUpload == 2
MaxUpload == 20
FileCounts == {0, 1, MinUpload, MinUpload + 1, MaxUpload, MaxUpload + 1}

\* a * b for two numbers
Times(a, b) == Num(DigitsOf(NumberOf(a.v) * NumberOf(b.v)))

\* a reader that accepts a single image
uploadRejected_NoMinimum(files, max) == files = 0 \/ files > max

\* readImageBuffers(form, max) throws
uploadRejected(files, max) == files = 0 \/ files < MinUpload \/ files > max

\* the pack fields read from the model answer (undefined: there is no answer)
AiPacks ==
    { [slips_count |-> Undefined, tablets_per_slip |-> Undefined],
      [slips_count |-> Null, tablets_per_slip |-> Null],
      [slips_count |-> Num(<<"3">>), tablets_per_slip |-> Null],
      [slips_count |-> Num(<<"0">>), tablets_per_slip |-> Num(<<"1","0">>)],
      [slips_count |-> Num(<<"2">>), tablets_per_slip |-> Num(<<"1","5">>)] }
\* the label texts the regex extractor can see
PackTexts == {<<"1","0"," ","x"," ","1","0"," ","T","A","B">>, <<"1","0"," ","C","A","P","S"," ","x"," ","3">>, <<"1","0"," ","T","A","B">>, <<"S","y","r","u","p"," ","6","0"," ","m","l">>}
ScanNames == {Str(<<"P","a","r","a","c","e","t","a","m","o","l"," ","5","0","0","m","g">>), Null}

Extracted(name, pack, source, made) ==
    [status |-> "returned", name |-> name, slips_count |-> pack.slips_count,
     tablets_per_slip |-> pack.tablets_per_slip,
     dosage_form_on_label |-> Null, _source |-> source, made |-> made]

\* what the awaited extractProductDataFromImages can end with for n images:
\* the vision record as the model gave it, or the merged record of the OCR
\* path, each with the calls the run made; or it throws
ScanOutcomes(n) ==
    {Extracted(name, pack, "vision", [NoCalls EXCEPT !.vision = 1]) :
         name \in {Str(<<"P","a","r","a","c","e","t","a","m","o","l"," ","5","0","0","m","g">>)}, pack \in AiPacks}
    \cup
    {Extracted(name, mergePack(pack, extractPackInfo(text)),
               IF pack.slips_count = Undefined THEN "undefined" ELSE "ocr_llm",
               [NoCalls EXCEPT !.vision = 1, !.ocr = n, !.text = 1, !.regex = 1,
                               !.vote = 1]) :
         name \in ScanNames, pack \in AiPacks, text \in PackTexts}

\* which images performOCR cannot read
Unreadable == {"none", "first", "last", "all"}
IsUnreadable(a, i) ==
    CASE a.unreadable = "none" -> FALSE
      [] a.unreadable = "first" -> i = 1
      [] a.unreadable = "last" -> i = a.files
      [] OTHER -> TRUE

\* what performOCR reads on an image it can read
DisplayText == <<"S","y","r","u","p"," ","6","0"," ","m","l">>

InitScan ==
    /\ mode = "scan"
    /\ pc = "request"
    /\ arg \in [files : FileCounts, unreadable : Unreadable]
    /\ res = Null /\ res2 = Null
    /\ PipelineIdle /\ ScanIdle

\* the catch of POST: { success: false, message }, status 400
ErrorResponse == [NoResponse EXCEPT !.status = 400]

\* req.formData() and readImageBuffers(form, 20): a bad count of images
\* throws, and the catch of POST answers
ReadImages ==
    /\ mode = "scan" /\ pc = "request"
    /\ IF uploadRejected(arg.files, MaxUpload)
       THEN pc' = "responded" /\ response' = ErrorResponse
       ELSE pc' = "extract" /\ UNCHANGED response
    /\ UNCHANGED <<mode, pureVars, pipeVars, calls, worker, extracted, ocrResults>>

\* extractProductDataFromImages returns
ExtractReturns ==
    /\ mode = "scan" /\ pc = "extract"
    /\ \E o \in ScanOutcomes(arg.files) :
          /\ extracted' = o
          /\ calls' = o.made
    /\ pc' = "display"
    /\ UNCHANGED <<mode, pureVars, pipeVars, worker, ocrResults, response>>

\* extractProductDataFromImages throws
ExtractThrows ==
    /\ mode = "scan" /\ pc = "extract"
    /\ \E made \in {NoCalls, [NoCalls EXCEPT !.vision = 1, !.ocr = arg.files,
                                             !.text = 1, !.regex = 1]} :
          calls' = made
    /\ pc' = "responded"
    /\ response' = ErrorResponse
    /\ UNCHANGED <<mode, pureVars, pipeVars, worker, extracted, ocrResults>>

\* one turn of the per-image OCR loop for the response display
DisplayOcr ==
    /\ mode = "scan" /\ pc = "display"
    /\ Len(ocrResults) < arg.files
    /\ ocrResults' = Append(ocrResults,
          IF IsUnreadable(arg, Len(ocrResults) + 1)
          THEN [text |-> <<>>, confidence |-> 0]
          ELSE [text |-> DisplayText, confidence |-> 87])
    /\ calls' = [calls EXCEPT !.ocr = @ + 1]
    /\ UNCHANGED <<mode, pc, pureVars, pipeVars, worker, extracted, response>>

\* the product of the two pack numbers, whatever they are
totalTablets_Truthy(slips, perSlip) ==
    IF Truthy(slips) /\ Truthy(perSlip) THEN Times(slips, perSlip) ELSE Null

\* extractedData.total_tablets
totalTablets(slips, perSlip) ==
    IF NotNullish(slips) /\ NotNullish(perSlip) THEN Times(slips, perSlip) ELSE Null

\* extractedData, and the response that carries it
SuccessResponse ==
    [status |-> 200, success |-> TRUE,
     name |-> Or(extracted.name, Null),
     slips_count |-> Coalesce(extracted.slips_count, Null),
     tablets_per_slip |-> Coalesce(extracted.tablets_per_slip, Null),
     total_tablets |-> totalTablets(extracted.slips_count, extracted.tablets_per_slip),
     source |-> IF extracted._source = "undefined" THEN "vision" ELSE extracted._source]

\* after the loop: enrichment, dosage form, extractedData; then the
\* medicine and its facts are written when there is a name
UpsertMedicine ==
    /\ mode = "scan" /\ pc = "display"
    /\ Len(ocrResults) = arg.files
    /\ IF Truthy(extracted.name)
       THEN calls' = [calls EXCEPT !.db = @ + 2]
       ELSE UNCHANGED calls
    /\ pc' = "archive"
    /\ UNCHANGED <<mode, pureVars, pipeVars, worker, extracted, ocrResults, response>>

\* prisma.scan.create and the final response
CreateScan ==
    /\ mode = "scan" /\ pc = "archive"
    /\ calls' = [calls EXCEPT !.db = @ + 1]
    /\ response' = SuccessResponse
    /\ pc' = "responded"
    /\ UNCHANGED <<mode, pureVars, pipeVars, worker, extracted, ocrResults>>

\* a database call throws: the catch of POST answers
DatabaseFails ==
    /\ mode = "scan" /\ pc = "archive"
    /\ response' = ErrorResponse
    /\ pc' = "responded"
    /\ UNCHANGED <<mode, pureVars, pipeVars, calls, worker, extracted, ocrResults>>

NextScan ==
    \/ ReadImages
    \/ ExtractReturns \/ ExtractThrows
    \/ DisplayOcr
    \/ UpsertMedicine \/ CreateScan \/ DatabaseFails

SpecScan == InitScan /\ [][NextScan]_vars

\* C14: a request with fewer than 2 or more than 20 images is answered with
\* an error response, and nothing else happens in it: no vision call, no OCR
\* call, no text-model call, no database write, at any point of the run.
C14_BadCountRejectedFirst ==
    (mode = "scan" /\ (arg.files < 2 \/ arg.files > 20)) =>
        /\ calls = NoCalls
        /\ extracted = NoRecord /\ ocrResults = <<>>
        /\ pc \in {"request", "responded"}
        /\ pc = "responded" => (response.status = 400 /\ ~response.success)

C14_Witness ==
    /\ mode = "scan" /\ pc = "responded" /\ arg.files = 1
    /\ response.status = 400 /\ calls = NoCalls

\* C15: in the response, total_tablets is slips_count * tablets_per_slip
\* when both are non-null, and null when either is null.
C15_TotalTablets ==
    (mode = "scan" /\ pc = "responded" /\ response.success) =>
        IF response.slips_count # Null /\ response.tablets_per_slip # Null
        THEN response.total_tablets =
                 Num(DigitsOf(NumberOf(response.slips_count.v)
                              * NumberOf(response.tablets_per_slip.v)))
        ELSE response.total_tablets = Null

\* only the lone "10 TAB" pattern matched and the model gave no pack numbers
C15_Witness ==
    /\ mode = "scan" /\ pc = "responded" /\ response.success
    /\ extracted._source = "undefined"
    /\ response.slips_count = Null /\ response.tablets_per_slip = Num(<<"1","0">>)
    /\ response.total_tablets = Null

(***************************************************************************)
(* Properties of the pipeline: when the text model, the regex extractor    *)
(* and the vote run                                                        *)
(***************************************************************************)
\* the answer is an object with a non-null, non-empty field, as it came
RawFieldPresent(j) ==
    j.k = "obj" /\ \E key \in FieldNames : NotNullish(j.f[key]) /\ j.f[key] # Str(<<>>)

\* the same once a truthy batch number has been through finalizeBatch
NormalisedFieldPresent(j) ==
    j.k = "obj" /\
    \E key \in FieldNames :
        LET v == IF key = "batch_number" /\ Truthy(j.f[key])
                 THEN finalizeBatch(j.f[key]) ELSE j.f[key]
        IN  NotNullish(v) /\ v # Str(<<>>)

\* C16 as stated: whenever vision has returned a record with a non-null,
\* non-empty field, the run does not go on to OCR and the text model.
C16_RawFieldStopsFallback ==
    [][(mode = "pipeline" /\ pc = "visionParsed" /\ RawFieldPresent(visionAnswer))
          => pc' # "ocr"]_vars

\* C16: when the vision record, after its batch number has been normalised,
\* has a non-null, non-empty field, the run returns it and issues no OCR and
\* no text-model call; in every run the text-model call is issued at most
\* once, and only after the vision attempt has ended without a record.
C16_TextModelOnlyAsFallback ==
    /\ [](mode = "pipeline" =>
            /\ calls.text <= 1
            /\ calls.text = 1 => visionOutcome \in {"threw", "null", "insufficient"}
            /\ visionOutcome = "accepted" => calls.text = 0 /\ calls.ocr = 0)
    /\ [][(mode = "pipeline" /\ pc = "visionParsed"
              /\ NormalisedFieldPresent(visionAnswer))
            => (pc' = "returned" /\ calls'.text = 0 /\ calls'.ocr = 0)]_vars

C16_Witness ==
    /\ mode = "pipeline" /\ pc = "returned" /\ visionOutcome = "accepted"
    /\ NormalisedFieldPresent(visionAnswer)
    /\ calls.vision = 1 /\ calls.text = 0 /\ calls.ocr = 0

SweepRuns(texts) ==
    Concat([i \in 1..Len(texts) |-> CandidateRuns(toUpperCase(texts[i]), 1)])

\* the candidates of the input a, normalized, pool by pool
PoolsOf(a) ==
    LET Norm(xs) == [i \in 1..Len(xs) |-> normalizeBatchToken(Str(xs[i]))]
    IN  [hint  |-> Norm(extractBatchCandidates(a.hintedLines)),
         sweep |-> Norm(SweepRuns(a.ocrTexts)),
         guess |-> <<normalizeBatchToken(a.aiBatch), normalizeBatchToken(a.rxBatch)>>]

\* how many members of the list ns are the token t
Supporters(ns, t) == Cardinality({i \in 1..Len(ns) : ns[i] = Str(t)})

\* the weight the pools p give to the token t
TallyOf(p, t) ==
    2 * Supporters(p.hint, t) + Supporters(p.sweep, t) + Supporters(p.guess, t)

\* the tokens some candidate of the pools p normalizes to
TokensOf(p) ==
    LET all == p.hint \o p.sweep \o p.guess
    IN  {all[i].v : i \in {j \in 1..Len(all) : Truthy(all[j])}}

\* C18: pickBestBatch returns null when no candidate survives normalization;
\* otherwise a token whose weight (2 per candidate around a batch keyword,
\* 1 per occurrence in the sweep, 1 per guess) is the largest and whose
\* length is the smallest among the tokens of that weight.
C18_HeaviestThenShortest ==
    (mode = "vote" /\ pc = "voted") =>
        LET p == PoolsOf(arg)
            tokens == TokensOf(p)
        IN  IF tokens = {} THEN res = Null
            ELSE /\ res.t = "str" /\ res.v \in tokens
                 /\ \A t \in tokens :
                       \/ TallyOf(p, t) < TallyOf(p, res.v)
                       \/ TallyOf(p, t) = TallyOf(p, res.v) /\ Len(res.v) <= Len(t)

\* one candidate beside the keyword outweighs one occurrence in the sweep
\* of a shorter token
C18_Witness ==
    /\ mode = "vote" /\ pc = "voted"
    /\ arg.hintedLines = <<<<"L","o","t">>, T_ABC1234>>
    /\ arg.ocrTexts = <<T_AB1234>>
    /\ arg.aiBatch = Undefined /\ arg.rxBatch = Null
    /\ res.t = "str"
    /\ TallyOf(PoolsOf(arg), res.v) = 2
    /\ \E t \in TokensOf(PoolsOf(arg)) :
          TallyOf(PoolsOf(arg), t) = 1 /\ Len(t) < Len(res.v)

(***************************************************************************)
(* Name selection: preferName applied to a model name and a regex name     *)
(***************************************************************************)
AiNames ==
    { Undefined, Null, Str(<<>>), Str(<<"A","b","c">>), Str(<<"A","b","c","d","e","f">>),
      Str(<<"P","a","r","a","c","e","t","a","m","o","l">>), Str(<<" ","I","b","u","p","r","o","f","e","n"," ">>), Str(<<" "," "," ","a","b"," "," "," ">>),
      Str(<<"Z","i","n","c"," ">>), Num(<<"1","2","3","4","5">>), Arr(<<"a","b","c","d","e","f">>), Arr(<<"a","b">>) }
\* RegexName gives a string or null
RxNames ==
    { Null, Str(<<"A","b","c">>), Str(<<"C","r","o","c","i","n"," ","5","0","0">>), Str(<<"A","m","o","x","i","l">>),
      Str(<<" ","C","e","t","z","i","n","e">>), Str(<<"A","b"," ","d","e">>) }

InitName ==
    /\ mode = "name"
    /\ pc = "input"
    /\ arg \in [aiName : AiNames, rxName : RxNames]
    /\ res = Null
    /\ res2 = Null
    /\ PipelineIdle /\ ScanIdle

CallPreferName ==
    /\ mode = "name" /\ pc = "input"
    /\ ~preferNameThrows(arg.aiName, arg.rxName)
    /\ res' = preferName(arg.aiName, arg.rxName)
    /\ pc' = "named"
    /\ UNCHANGED <<mode, arg, res2, pipeVars, calls, scanVars>>

\* aiName.trim is not a function
CallPreferNameThrows ==
    /\ mode = "name" /\ pc = "input"
    /\ preferNameThrows(arg.aiName, arg.rxName)
    /\ pc' = "threw"
    /\ UNCHANGED <<mode, arg, res, res2, pipeVars, calls, scanVars>>

NextName == CallPreferName \/ CallPreferNameThrows

SpecName == InitName /\ [][NextName]_vars

\* a name of at least 6 characters
SixCharacters(x) == x.t = "str" /\ Len(x.v) >= 6
\* a name made of characters, or none
NameOrNone(x) == x.t \in {"str", "null", "undefined"}

\* C20 as stated: the model's name when it has at least 6 characters, else
\* the regex name when that has, else the model's name if non-empty, else
\* the regex name, else null.
C20_NameAsGiven ==
    (mode = "name" /\ pc = "named") =>
        res = IF SixCharacters(arg.aiName) THEN arg.aiName
              ELSE IF SixCharacters(arg.rxName) THEN arg.rxName
              ELSE IF Truthy(arg.aiName) THEN arg.aiName
              ELSE IF Truthy(arg.rxName) THEN arg.rxName
              ELSE Null

\* C20: the model's name without its surrounding white space when it has at
\* least 6 characters, else the regex name without its surrounding white
\* space when that has, else the model's name if non-empty, else the regex
\* name, else null; a model name made of characters always gets an answer.
C20_NameTrimmed ==
    /\ (mode = "name" /\ pc = "named") =>
          res = IF SixCharacters(arg.aiName) THEN Str(trim(arg.aiName.v))
                ELSE IF SixCharacters(arg.rxName) THEN Str(trim(arg.rxName.v))
                ELSE IF Truthy(arg.aiName) THEN arg.aiName
                ELSE IF Truthy(arg.rxName) THEN arg.rxName
                ELSE Null
    /\ (mode = "name" /\ pc = "threw") => ~NameOrNone(arg.aiName)

\* both names are long and the model's has white space around it
C20_Witness ==
    /\ mode = "name" /\ pc = "named"
    /\ arg.aiName = Str(<<" ","I","b","u","p","r","o","f","e","n"," ">>) /\ arg.rxName = Str(<<"C","r","o","c","i","n"," ","5","0","0">>)
    /\ res = Str(<<"I","b","u","p","r","o","f","e","n">>)

(***************************************************************************)
(* Dates on label lines, the regex extractor's dates, and their merge      *)
(***************************************************************************)
\* the first position with a match, and the match's last position, from the
\* list of the patterns' ends at every position (0: no match there)
FirstHit(ends) ==
    LET hits == {p \in 1..Len(ends) : ends[p] > 0}
    IN  IF hits = {} THEN <<>>
        ELSE LET p == CHOOSE q \in hits : \A r \in hits : q <= r
             IN  <<p, ends[p]>>

\* one of Jan .. Dec (any case) stands at p
IsMonthAt(s, p) ==
    \E i \in 1..Len(MonthNames) : toLowerCase(Slice(s, p, p + 2)) = MonthNames[i]

\* \d{lo1,hi1}[\/\-\.]\d{1,2}[\/\-\.]\d{lo3,hi3} at p: the last position of
\* the match or 0; bounded: between two \b
NumericEnd(s, p, lo1, hi1, lo3, hi3, bounded) ==
    LET a    == RunEnd(s, p, DigitSet)
        b    == RunEnd(s, a + 2, DigitSet)
        r3   == RunEnd(s, b + 2, DigitSet) - (b + 1)
        take == IF bounded \/ r3 < hi3 THEN r3 ELSE hi3
    IN  IF /\ a - p + 1 \in lo1..hi1
           /\ At(s, a + 1) \in DateSeps
           /\ b - (a + 1) \in 1..2
           /\ At(s, b + 1) \in DateSeps
           /\ take \in lo3..hi3
           /\ bounded => (~IsWordCh(At(s, p - 1)) /\ ~IsWordCh(At(s, b + 2 + take)))
        THEN b + 1 + take
        ELSE 0

\* (?:Jan|...|Dec)[a-z]*\s+\d{1,2},?\s*\d{2,4} (i) at p
MonthDayYearEnd(s, p, bounded) ==
    LET a  == RunEnd(s, p + 3, LetterSet)
        b  == RunEnd(s, a + 1, SpaceSet)
        c  == RunEnd(s, b + 1, DigitSet)
        r  == c - b
        d  == IF At(s, c + 1) = "," THEN c + 1 ELSE c
        e  == RunEnd(s, d + 1, SpaceSet)
        f  == RunEnd(s, e + 1, DigitSet)
        r2 == f - e
    IN  IF ~IsMonthAt(s, p) \/ b < a + 1 THEN 0
        ELSE IF bounded
        THEN IF IsWordCh(At(s, p - 1)) THEN 0
             ELSE IF r \in 3..6 THEN (IF IsWordCh(At(s, c + 1)) THEN 0 ELSE c)
             ELSE IF r \in 1..2 /\ r2 \in 2..4 /\ ~IsWordCh(At(s, f + 1)) THEN f
             ELSE 0
        ELSE IF r >= 4 THEN b + 2 + (IF r - 2 < 4 THEN r - 2 ELSE 4)
             ELSE IF r = 3 THEN c
             ELSE IF r \in 1..2 /\ r2 >= 2 THEN e + (IF r2 < 4 THEN r2 ELSE 4)
             ELSE 0

\* (?:Jan|...|Dec)[a-z]*[.\-\/\s]+\d{2,4} (i) at p
MonthYearEnd(s, p, bounded) ==
    LET a == RunEnd(s, p + 3, LetterSet)
        b == RunEnd(s, a + 1, MonthSeps)
        c == RunEnd(s, b + 1, DigitSet)
        r == c - b
    IN  IF ~IsMonthAt(s, p) \/ b < a + 1 THEN 0
        ELSE IF bounded
        THEN IF r \in 2..4 /\ ~IsWordCh(At(s, p - 1)) /\ ~IsWordCh(At(s, c + 1))
             THEN c ELSE 0
        ELSE IF r >= 2 THEN b + (IF r < 4 THEN r ELSE 4) ELSE 0

\* [A-Za-z]{3,5}[.\-\/\s]?\d{1,2} at p
LooseDateEnd(s, p) ==
    LET a == RunEnd(s, p, LetterSet)
        q == IF At(s, a + 1) \in MonthSeps THEN a + 2 ELSE a + 1
        r == RunEnd(s, q, DigitSet) - (q - 1)
    IN  IF a - p + 1 \in 3..5 /\ r >= 1 THEN q - 1 + (IF r < 2 THEN r ELSE 2) ELSE 0

\* findFirstDateToken(s): the first match of the first pattern that matches
findFirstDateToken(s) ==
    LET Ends(kind) ==
            [p \in 1..Len(s) |->
                CASE kind = 1 -> NumericEnd(s, p, 4, 4, 1, 2, FALSE)
                  [] kind = 2 -> NumericEnd(s, p, 1, 2, 2, 4, FALSE)
                  [] kind = 3 -> MonthDayYearEnd(s, p, FALSE)
                  [] kind = 4 -> MonthYearEnd(s, p, FALSE)
                  [] OTHER    -> LooseDateEnd(s, p)]
        kinds == {k \in 1..5 : FirstHit(Ends(k)) # <<>>}
    IN  IF kinds = {} THEN Null
        ELSE LET m == FirstHit(Ends(SetMin(kinds)))
             IN  Str(Slice(s, m[1], m[2]))

\* mfgLabel /(?:Mfg\.?\s*Date|MFG\s*Date|MFG|DOM|...)\s*[:\-]*/i at p: the
\* position after the match, or 0 (no line of this model holds the
\* Devanagari label)
MfgLabelEnd(s, p) ==
    LET dot  == IF At(s, p + 3) = "." THEN p + 4 ELSE p + 3
        date == SkipSpaces(s, dot)
        word == IF LitAt(s, p, <<"m","f","g">>)
                THEN (IF LitAt(s, date, <<"d","a","t","e">>) THEN date + 4 ELSE p + 3)
                ELSE IF LitAt(s, p, <<"d","o","m">>) THEN p + 3
                ELSE 0
    IN  IF word = 0 THEN 0
        ELSE RunEnd(s, SkipSpaces(s, word), {":", "-"}) + 1

\* the line with its first mfgLabel replaced by a space, trimmed; <<>> for
\* a line without the label
AfterMfgLabel(line) ==
    LET m == FirstHit([p \in 1..Len(line) |-> MfgLabelEnd(line, p)])
    IN  IF m = <<>> THEN <<>>
        ELSE trim(Slice(line, 1, m[1] - 1) \o <<" ">> \o Slice(line, m[2], Len(line)))
HasMfgLabel(line) == \E p \in 1..Len(line) : MfgLabelEnd(line, p) > 0

\* pullLabeledValue(lines, mfgLabel, findFirstDateToken), from line i
RECURSIVE pullMfgDate(_, _)
pullMfgDate(lines, i) ==
    IF i > Len(lines) THEN Null
    ELSE IF ~HasMfgLabel(lines[i]) THEN pullMfgDate(lines, i + 1)
    ELSE LET val == findFirstDateToken(AfterMfgLabel(lines[i]))
             nxt == IF i + 1 <= Len(lines) THEN findFirstDateToken(lines[i + 1]) ELSE Null
         IN  IF Truthy(val) THEN val
             ELSE IF Truthy(nxt) THEN nxt
             ELSE pullMfgDate(lines, i + 1)

\* extractBatchAndMfgFromLines(lines): the manufacturing date
labelMfgDate(lines) == [manufacturing_date |-> Or(pullMfgDate(lines, 1), Null)]

\* mfgHint /(?:Mfg\.?|MFG|DOM|...)/i and expHint
\* /(?:Exp\.?|EXP|Expiry|Use by|Best before|...)/i
HasMfgHint(line) ==
    \E p \in 1..Len(line) :
        LitAt(line, p, <<"m","f","g">>) \/ LitAt(line, p, <<"d","o","m">>)
HasExpHint(line) ==
    \E p \in 1..Len(line) :
        \/ LitAt(line, p, <<"e","x","p">>)
        \/ LitAt(line, p, <<"u","s","e"," ","b","y">>)
        \/ LitAt(line, p, <<"b","e","s","t"," ","b","e","f","o","r","e">>)

\* lines.find(l => hint.test(l)) || ''
FirstLine(lines, Hit) ==
    LET hits == {i \in 1..Len(lines) : Hit[i]}
    IN  IF hits = {} THEN <<>> ELSE lines[SetMin(hits)]

\* monthYearToIso(line.match(monthYearPattern)), null without a match
monthYearToIso(line) ==
    LET m == FirstHit([p \in 1..Len(line) |-> MonthYearEnd(line, p, TRUE)])
    IN  IF m = <<>> THEN Null
        ELSE LET y0 == Slice(line, RunEnd(line, RunEnd(line, m[1] + 3, LetterSet) + 1,
                                          MonthSeps) + 1, m[2])
                 y  == IF Len(y0) = 2
                       THEN (IF TwoDigitValue(y0) >= PivotYear
                             THEN <<"1","9">> ELSE <<"2","0">>) \o y0
                       ELSE y0
             IN  Str(y \o <<"-">>
                       \o TwoDigits(MonthNumber(Slice(line, m[1], m[1] + 2)))
                       \o <<"-","0","1">>)

\* fullDatePattern at p: the first alternative that matches between two \b
FullDateEnd(s, p) ==
    IF NumericEnd(s, p, 4, 4, 1, 2, TRUE) > 0 THEN NumericEnd(s, p, 4, 4, 1, 2, TRUE)
    ELSE IF NumericEnd(s, p, 1, 2, 2, 4, TRUE) > 0 THEN NumericEnd(s, p, 1, 2, 2, 4, TRUE)
    ELSE MonthDayYearEnd(s, p, TRUE)

\* [...src.matchAll(fullDatePattern)].map(m => m[0]), from position i
RECURSIVE FullDatesFrom(_, _)
FullDatesFrom(s, i) ==
    IF i > Len(s) THEN <<>>
    ELSE IF FullDateEnd(s, i) > 0
         THEN <<Str(Slice(s, i, FullDateEnd(s, i)))>> \o FullDatesFrom(s, FullDateEnd(s, i) + 1)
         ELSE FullDatesFrom(s, i + 1)

\* extractWithRegex(text): manufacturing_date and expiry_date
regexDates(src) ==
    LET lines     == SplitLines(src)
        mfgLine   == FirstLine(lines, [i \in 1..Len(lines) |-> HasMfgHint(lines[i])])
        expLine   == FirstLine(lines, [i \in 1..Len(lines) |-> HasExpHint(lines[i])])
        mfg0      == monthYearToIso(mfgLine)
        exp0      == monthYearToIso(expLine)
        fullDates == FullDatesFrom(src, 1)
        short     == ~Truthy(mfg0) \/ ~Truthy(exp0)
        mfg1      == IF short /\ Len(fullDates) >= 2 THEN Or(mfg0, fullDates[1]) ELSE mfg0
        exp1      == IF short /\ Len(fullDates) >= 2 THEN Or(exp0, fullDates[2])
                     ELSE IF short /\ Len(fullDates) = 1 THEN Or(exp0, fullDates[1])
                     ELSE exp0
    IN  [manufacturing_date |-> Or(toIsoDate(mfg1), mfg1),
         expiry_date |-> Or(toIsoDate(exp1), exp1)]

\* mergeResults: the two dates
mergeDates(aiDates, rxDates, hits) ==
    [manufacturing_date |->
         Or(Or(Or(hits.manufacturing_date, aiDates.manufacturing_date),
               rxDates.manufacturing_date), Null),
     expiry_date |-> Or(Or(aiDates.expiry_date, rxDates.expiry_date), Null)]


(***************************************************************************)
(* The dates of a cleaned text merged with the dates a model gave          *)
(***************************************************************************)
MaxDateLines == 2
DateLines ==
    { <<"M","f","g",":"," ","2","0","2","4","-","0","3","-","0","1">>, <<"M","F","G"," ","M","A","R"," ","2","0","2","4">>, <<"M","f","g","."," ","D","a","t","e",":">>, <<"1","2","/","0","3","/","2","0","2","4">>,
      <<"E","x","p",":"," ","2","0","2","6","-","1","0","-","0","1">>, <<"E","X","P"," ","O","C","T"," ","2","6">>, <<"P","a","r","a","c","e","t","a","m","o","l">> }
\* the cleaned texts: up to MaxDateLines different lines
DateTexts ==
    {Join(ls, <<"\n">>) :
        ls \in {xs \in UNION {[1..n -> DateLines] : n \in 0..MaxDateLines} :
                   \A i, j \in 1..Len(xs) : xs[i] = xs[j] => i = j}}
\* ai?.manufacturing_date and ai?.expiry_date
AiMfgDates == {Undefined, Str(<<"2","0","2","3","-","0","1","-","0","1">>)}
AiExpDates == {Undefined, Str(<<>>), Str(<<"2","0","2","7","-","1","2","-","3","1">>)}

InitDates ==
    /\ mode = "dates"
    /\ pc = "input"
    /\ arg \in [text : DateTexts, manufacturing_date : AiMfgDates,
                expiry_date : AiExpDates]
    /\ res = Null
    /\ res2 = Null
    /\ PipelineIdle /\ ScanIdle

\* rx = extractWithRegex(cleanedOriginal) and
\* labelHits = extractBatchAndMfgFromLines(hints._lines)
CallExtractors ==
    /\ mode = "dates" /\ pc = "input"
    /\ res' = [rx |-> regexDates(arg.text), labelHits |-> labelMfgDate(buildHints(arg.text))]
    /\ pc' = "extracted"
    /\ UNCHANGED <<mode, arg, res2, pipeVars, calls, scanVars>>

\* merged = mergeResults(ai || {}, rx, hints._lines, labelHits)
CallMergeDates ==
    /\ mode = "dates" /\ pc = "extracted"
    /\ res2' = mergeDates(arg, res.rx, res.labelHits)
    /\ pc' = "merged"
    /\ UNCHANGED <<mode, arg, res, pipeVars, calls, scanVars>>

NextDates == CallExtractors \/ CallMergeDates

SpecDates == InitDates /\ [][NextDates]_vars

\* the date read on the first line that carries an expiry keyword
ExpLabelDate(lines) ==
    LET hits == {i \in 1..Len(lines) : HasExpHint(lines[i])}
    IN  IF hits = {} THEN Null ELSE findFirstDateToken(lines[SetMin(hits)])

\* the same date, whatever its notation
SameDate(x, y) == Or(toIsoDate(x), x) = Or(toIsoDate(y), y)

\* the label line's date, else the model's when non-empty, else the regex's
LabelThenModelThenRegex(label, model, regex) ==
    IF Truthy(label) THEN label
    ELSE IF Truthy(model) THEN model
    ELSE IF Truthy(regex) THEN regex
    ELSE Null

\* C19: each of manufacturing_date and expiry_date is, after the merge, the
\* date read from the label line with the field's keyword when there is
\* one, else the model's date when non-empty, else the regex extractor's.
C19_LabelLineFirst ==
    (mode = "dates" /\ pc = "merged") =>
        /\ SameDate(res2.manufacturing_date,
                    LabelThenModelThenRegex(res.labelHits.manufacturing_date,
                                            arg.manufacturing_date,
                                            res.rx.manufacturing_date))
        /\ SameDate(res2.expiry_date,
                    LabelThenModelThenRegex(ExpLabelDate(buildHints(arg.text)),
                                            arg.expiry_date, res.rx.expiry_date))

(***************************************************************************)
(* Label-only fields: uses, active ingredient, strength, dosage form       *)
(*                                                                         *)
(* The tail of extractProductDataFromImages on the OCR path: the uses read *)
(* from the cleaned text, the label-only part of mergeResults, and the     *)
(* four fields of the returned record.  A list of uses is Arr of strings.  *)
(***************************************************************************)
\* s.split(/[cls]/): the pieces between the characters of cls
RECURSIVE SplitOn(_, _)
SplitOn(s, cls) ==
    LET hits == {i \in 1..Len(s) : s[i] \in cls}
        e    == SetMin(hits)
    IN  IF hits = {} THEN <<s>>
        ELSE <<Slice(s, 1, e - 1)>> \o SplitOn(Slice(s, e + 1, Len(s)), cls)

\* p.replace(/\s+/g, ' ').trim()
TidyUse(p) == trim(ReplaceRuns(p, SpaceSet, <<" ">>))

\* split(cls).forEach(p => { const v = tidy(p); if (v) uses.add(v) }): the
\* values added, in order
UsesOfPieces(s, cls) ==
    LET pieces == SplitOn(s, cls)
        Filled(v) == v # <<>>
    IN  SelectSeq([i \in 1..Len(pieces) |-> TidyUse(pieces[i])], Filled)

\* /\b(Indications?|Uses?)\b/i matched at p: the position after the match,
\* 0 when it does not match
UsesKeywordEnd(l, p) ==
    LET End(lit) ==
            IF ~LitAt(l, p, lit) THEN 0
            ELSE IF LowCh(At(l, p + Len(lit))) = "s" /\ WordBoundary(l, p + Len(lit) + 1)
                 THEN p + Len(lit) + 1
            ELSE IF WordBoundary(l, p + Len(lit)) THEN p + Len(lit)
            ELSE 0
        ind == End(<<"i","n","d","i","c","a","t","i","o","n">>)
    IN  IF ~WordBoundary(l, p) THEN 0
        ELSE IF ind > 0 THEN ind
        ELSE End(<<"u","s","e">>)

\* /\b(Indications?|Uses?)\b\s*[:\-]\s*(.+)$/i matched at p: the position
\* where group 2 starts, 0 when it does not match (group 2 ends the line)
UsesValueStart(l, p) ==
    LET e == UsesKeywordEnd(l, p)
        q == SkipSpaces(l, e)
        r == SkipSpaces(l, q + 1)
    IN  IF e = 0 \/ At(l, q) \notin {":", "-"} THEN 0
        ELSE IF r <= Len(l) THEN r
        ELSE IF r - 1 > q THEN r - 1
        ELSE 0

\* the uses of one line: the pieces of m1[2] between ; and , (the bullet
\* characters of the class are outside the alphabet of this model)
LabelledUses(l) ==
    LET hits == {p \in 1..Len(l) : UsesValueStart(l, p) > 0}
    IN  IF hits = {} THEN <<>>
        ELSE UsesOfPieces(Slice(l, UsesValueStart(l, SetMin(hits)), Len(l)), {";", ","})

\* the class [a-z ,&\-\/] under the i flag
InlineChars == UpperSet \cup LowerSet \cup {" ", ",", "&", "-", "/"}

\* /\bfor (?:the )?(?:relief|treatment|management|control) of /i matched
\* at p: the position after the match, 0 when it does not match
InlineHeadEnd(s, p) ==
    LET a == IF LitAt(s, p + 4, <<"t","h","e"," ">>) THEN p + 8 ELSE p + 4
        NounEnd(lit) == IF LitAt(s, a, lit) THEN a + Len(lit) ELSE 0
        n == SetMax({NounEnd(<<"r","e","l","i","e","f">>), NounEnd(<<"t","r","e","a","t","m","e","n","t">>),
                     NounEnd(<<"m","a","n","a","g","e","m","e","n","t">>), NounEnd(<<"c","o","n","t","r","o","l">>)})
    IN  IF WordBoundary(s, p) /\ LitAt(s, p, <<"f","o","r"," ">>) /\ n > 0
           /\ LitAt(s, n, <<" ","o","f"," ">>)
        THEN n + 4 ELSE 0

\* ([a-z ,&\-\/]+?)(?:\.|,|;|$) from g: the least number of characters of
\* group 1, 0 when it does not match
InlineLength(s, g) ==
    LET fits == {n \in 1..(Len(s) - g + 1) :
                    /\ AllIn(s, g, g + n - 1, InlineChars)
                    /\ (At(s, g + n) \in {".", ",", ";"} \/ g + n = Len(s) + 1)}
    IN  IF fits = {} THEN 0 ELSE SetMin(fits)

\* the exec loop of INLINE_RE from position from: the uses of every match
RECURSIVE InlineUses(_, _)
InlineUses(s, from) ==
    LET hits == {p \in from..Len(s) :
                    InlineHeadEnd(s, p) > 0 /\ InlineLength(s, InlineHeadEnd(s, p)) > 0}
        g == InlineHeadEnd(s, SetMin(hits))
        n == InlineLength(s, g)
        next == IF g + n > Len(s) THEN g + n ELSE g + n + 1
    IN  IF hits = {} THEN <<>>
        ELSE UsesOfPieces(Slice(s, g, g + n - 1), {",", "&", "/"})
                \o InlineUses(s, next)

\* u.replace(/^\b(mild|moderate|severe)\b\s+/i, '').trim()
DropSeverity(u) ==
    LET End(lit) ==
            IF LitAt(u, 1, lit) /\ WordBoundary(u, Len(lit) + 1)
                 /\ IsSpace(At(u, Len(lit) + 1))
            THEN SkipSpaces(u, Len(lit) + 1) ELSE 0
        e == SetMax({End(<<"m","i","l","d">>), End(<<"m","o","d","e","r","a","t","e">>), End(<<"s","e","v","e","r","e">>)})
    IN  trim(IF e > 0 THEN Slice(u, e, Len(u)) ELSE u)

MinUseLength == 3
MaxUses == 10

\* extractUsesFromText(text): the labelled uses of every line, then the
\* inline ones, each once (NEP_RE finds nothing in a text without
\* Devanagari); severity words dropped, short values dropped, ten at most
extractUsesFromText(text) ==
    LET lines == buildHints(text)
        found == Dedupe(Concat([i \in 1..Len(lines) |-> LabelledUses(lines[i])])
                          \o InlineUses(text, 1))
        LongEnough(u) == Len(u) >= MinUseLength
        kept  == SelectSeq([i \in 1..Len(found) |-> DropSeverity(found[i])], LongEnough)
    IN  Slice(kept, 1, MaxUses)

\* the text model's label-only fields
LabelFieldNames ==
    {"uses_on_label", "active_ingredient_on_label", "strength_on_label",
     "dosage_form_on_label"}

\* mergeResults, label-only meta: the model's values or null
labelOnlyMeta(aiRec) ==
    LET Filled(u) == u # <<>>
    IN  [uses_on_label |->
             IF aiRec.uses_on_label.t = "arr"
             THEN Arr(SelectSeq(aiRec.uses_on_label.v, Filled)) ELSE Null,
         active_ingredient_on_label |-> Or(aiRec.active_ingredient_on_label, Null),
         strength_on_label |-> Or(aiRec.strength_on_label, Null),
         dosage_form_on_label |-> Or(aiRec.dosage_form_on_label, Null)]


\* the four fields of the returned record
returnedLabel(processed, name, usesRegexOnly) ==
    LET active_guess ==
            Or(processed.active_ingredient_on_label, inferActiveFromName(name))
    IN  [uses_on_label |->
             Or(processed.uses_on_label,
                IF Len(usesRegexOnly) > 0 THEN Arr(usesRegexOnly) ELSE Null),
         active_ingredient_on_label |->
             Or(Or(processed.active_ingredient_on_label, active_guess), Null),
         strength_on_label |-> Or(processed.strength_on_label, Null),
         dosage_form_on_label |-> Or(processed.dosage_form_on_label, Null)]

\* the label-only fields of the text model's answer ({} when it has none)
NoLabel == [f \in LabelFieldNames |-> Undefined]
AiLabels ==
    { NoLabel,
      [f \in LabelFieldNames |-> Null],
      [NoLabel EXCEPT !.uses_on_label = Arr(<<<<"f","e","v","e","r">>, <<>>, <<"c","o","u","g","h">>>>),
                      !.active_ingredient_on_label = Str(<<"Z","i","n","c">>),
                      !.strength_on_label = Str(<<"5","0","0"," ","m","g">>),
                      !.dosage_form_on_label = Str(<<"S","y","r","u","p">>)],
      [NoLabel EXCEPT !.uses_on_label = Arr(<<>>),
                      !.strength_on_label = Str(<<>>)],
      [NoLabel EXCEPT !.dosage_form_on_label = Str(<<"T","a","b","l","e","t">>)] }

\* the resolved name
LabelNames == {Null, Str(<<"P","a","r","a","c","e","t","a","m","o","l"," ","5","0","0","m","g">>), Str(<<"B","U","S","T","O","P">>)}

\* the cleaned OCR text
U_Labelled == <<"B","U","S","T","O","P","\n","U","s","e","s",":"," ","m","i","l","d"," ","f","e","v","e","r",","," ","c","o","u","g","h"," ",";"," "," ","b","o","d","y"," "," "," ","a","c","h","e">>
U_Inline   == <<"F","o","r"," ","t","h","e"," ","r","e","l","i","e","f"," ","o","f"," ","p","a","i","n"," ","&"," ","f","e","v","e","r",".","\n","I","n","d","i","c","a","t","i","o","n"," ","-"," ","f","l","u">>
U_Twice    == <<"U","s","e","s",":"," ","p","a","i","n","\n","f","o","r"," ","t","r","e","a","t","m","e","n","t"," ","o","f"," ","p","a","i","n",","," ","f","l","u",";"," ","f","o","r"," ","c","o","n","t","r","o","l"," ","o","f"," ","i","t">>
U_Short    == <<"U","s","e"," ",":"," ","a","b",","," ","x","\n","f","o","r"," ","r","e","l","i","e","f"," ","o","f"," ","5"," ","m","l">>
U_NoColon  == <<"U","s","e","s"," ","o","f"," ","s","y","r","u","p","\n","I","n","d","i","c","a","t","i","o","n","s",":">>
U_None     == <<"B","a","t","c","h"," ","N","o",":"," ","A","B"," ","1","2","3","4","\n","M","f","g"," ","2","0","2","4">>
UsesTexts == {U_Labelled, U_Inline, U_Twice, U_Short, U_NoColon, U_None}

InitLabel ==
    /\ mode = "label"
    /\ pc = "input"
    /\ arg \in [ai : AiLabels, name : LabelNames, text : UsesTexts]
    /\ res = Null
    /\ res2 = Null
    /\ PipelineIdle /\ ScanIdle

\* const usesRegexOnly = extractUsesFromText(cleanedOriginal)
CallExtractUses ==
    /\ mode = "label" /\ pc = "input"
    /\ res' = Arr(extractUsesFromText(arg.text))
    /\ pc' = "uses"
    /\ UNCHANGED <<mode, arg, res2, pipeVars, calls, scanVars>>

\* mergeResults and the return statement
CallReturnLabel ==
    /\ mode = "label" /\ pc = "uses"
    /\ res2' = returnedLabel(labelOnlyMeta(arg.ai), arg.name, res.v)
    /\ pc' = "labelled"
    /\ UNCHANGED <<mode, arg, res, pipeVars, calls, scanVars>>

NextLabel == CallExtractUses \/ CallReturnLabel

SpecLabel == InitLabel /\ [][NextLabel]_vars

\* C21: in the returned record each of uses_on_label,
\* active_ingredient_on_label, strength_on_label and dosage_form_on_label is
\* non-null only when the model's answer supplied it: neither the regex
\* over the OCR text nor the ingredient lookup writes one of them.
C21_LabelFieldsFromModel ==
    (mode = "label" /\ pc = "labelled") =>
        \A f \in LabelFieldNames : NotNullish(res2[f]) => NotNullish(arg.ai[f])

\* strength_on_label and dosage_form_on_label come from the model alone
StrengthAndFormFromModel ==
    (mode = "label" /\ pc = "labelled") =>
        \A f \in {"strength_on_label", "dosage_form_on_label"} :
            res2[f] = Or(arg.ai[f], Null)

\* the uses read by the regex reach the record when the model gave none
RegexUsesReturned ==
    /\ mode = "label" /\ pc = "labelled"
    /\ ~NotNullish(arg.ai.uses_on_label)
    /\ res2.uses_on_label = Arr(<<<<"f","e","v","e","r">>, <<"c","o","u","g","h">>, <<"b","o","d","y"," ","a","c","h","e">>>>)

(***************************************************************************)
(* The dosage-form decision of the scan entry point                        *)
(***************************************************************************)
\* the form that the label hint names by itself
FormOfLabel(label) ==
    IF guessDosageForm(label, <<>>) # <<>> THEN Str(guessDosageForm(label, <<>>))
    ELSE Str(toUpperCase(label))

\* C22: when the model supplied a dosage form on the label, the decided
\* dosage form is the form of that label, whatever form keywords the
\* combined OCR text contains; the keywords of the text decide only when
\* there is no label hint.
C22_LabelHintWins ==
    (mode = "liquid" /\ pc = "answered" /\ arg.label # <<>>) =>
        res2.dosage_form = FormOfLabel(arg.label)

\* without a label hint the keywords of the text decide
TextDecidesWithoutHint ==
    (mode = "liquid" /\ pc = "answered" /\ arg.label = <<>>) =>
        res2.dosage_form =
            IF guessDosageForm(<<>>, BlobOf(arg.parts)) # <<>>
            THEN Str(guessDosageForm(<<>>, BlobOf(arg.parts))) ELSE Null

\* the label says suspension, the text holds the word "Tablets", and the
\* decided form is TABLET
TabletOverridesLabel ==
    /\ mode = "liquid" /\ pc = "answered"
    /\ arg.label = <<"O","r","a","l"," ","S","u","s","p","e","n","s","i","o","n">>
    /\ arg.parts = <<F_Vol200, F_Tablets>>
    /\ res2.dosage_form = Str(<<"T","A","B","L","E","T">>)
    /\ res2.bottle_volume_ml = Null

(***************************************************************************)
(* The liquid parser on noisy label texts.  A Devanagari digit is the      *)
(* token dev0..dev9, and "devml" stands for a Devanagari spelling of ml;   *)
(* each line of a text is paired with the same line in clean ASCII.        *)
(***************************************************************************)
NoisyLine(noisy, clean, script) == [noisy |-> noisy, clean |-> clean, script |-> script]
L_My       == NoisyLine(<<"1","2","5","m","y","/","5","m","l">>, <<"1","2","5"," ","m","g","/","5","m","l">>, "latin")
L_OneOhZero == NoisyLine(<<"N","e","t"," ","1","O","0"," ","m","l">>, <<"N","e","t"," ","1","0","0"," ","m","l">>, "latin")
L_PackOhs  == NoisyLine(<<"2"," ","x"," ","1","O","0"," ","m","l">>, <<"2"," ","x"," ","1","0","0"," ","m","l">>, "latin")
L_Mq       == NoisyLine(<<"p","e","r"," ","1","0","m","l"," ","7",",","5"," ","m","q"," ","p","e","r"," ","1","0"," ","m","l">>, <<"p","e","r"," ","1","0","m","l"," ","7",",","5"," ","m","g"," ","p","e","r"," ","1","0"," ","m","l">>, "latin")
L_DevDigits == NoisyLine(<<"dev1","dev0","dev0"," ","m","l">>, <<"1","0","0"," ","m","l">>, "devanagari")
L_DevMl    == NoisyLine(<<"6","0"," ","devml">>, <<"6","0"," ","m","l">>, "devanagari")
L_DevDose  == NoisyLine(<<"p","e","r"," ","dev5","devml">>, <<"p","e","r"," ","5"," ","m","l">>, "devanagari")
NoisyLines == {L_My, L_OneOhZero, L_PackOhs, L_Mq, L_DevDigits, L_DevMl, L_DevDose}

\* the lines of one label text
MaxNoisyLines == 2

RECURSIVE NoisyText(_)
NoisyText(ls) ==
    IF ls = <<>> THEN <<>> ELSE Head(ls).noisy \o <<"\n">> \o NoisyText(Tail(ls))
RECURSIVE CleanText(_)
CleanText(ls) ==
    IF ls = <<>> THEN <<>> ELSE Head(ls).clean \o <<"\n">> \o CleanText(Tail(ls))

InitNoise ==
    /\ mode = "noise"
    /\ pc = "input"
    /\ arg \in UNION {[1..m -> NoisyLines] : m \in 1..MaxNoisyLines}
    /\ res = Null
    /\ res2 = Null
    /\ PipelineIdle /\ ScanIdle

\* POST: parseLiquidMeta(combinedText), on the text as it was read
CallParseNoisy ==
    /\ mode = "noise" /\ pc = "input"
    /\ res' = parseLiquidMeta(NoisyText(arg))
    /\ pc' = "noisy"
    /\ UNCHANGED <<mode, arg, res2, pipeVars, calls, scanVars>>

\* the same call on the clean text
CallParseClean ==
    /\ mode = "noise" /\ pc = "noisy"
    /\ res2' = parseLiquidMeta(CleanText(arg))
    /\ pc' = "both"
    /\ UNCHANGED <<mode, arg, res, pipeVars, calls, scanVars>>

NextNoise == CallParseNoisy \/ CallParseClean

SpecNoise == InitNoise /\ [][NextNoise]_vars

\* the volume, dose, pack and concentration of two parses are the same
SameLiquid(a, b) ==
    /\ a.bottleVolumeMl = b.bottleVolumeMl
    /\ a.doseMl = b.doseMl
    /\ a.bottlesPerPack = b.bottlesPerPack
    /\ a.concentrationMgPer5ml = b.concentrationMgPer5ml

\* C23: the parser called by the scan route gives, for a label text with
\* Devanagari digits, a Devanagari "ml", "5my" or "1O0", the same bottle
\* volume, dose, bottles per pack and concentration as for the same text in
\* clean ASCII.
C23_NoiseRepairedBeforeMatching ==
    (mode = "noise" /\ pc = "both") => SameLiquid(res, res2)

\* the Latin noise forms (my, mq, 1O0) are repaired before matching
LatinNoiseRepaired ==
    (mode = "noise" /\ pc = "both"
        /\ \A i \in 1..Len(arg) : arg[i].script = "latin")
      => SameLiquid(res, res2)

\* a volume in Devanagari digits is not read
DevanagariVolumeLost ==
    /\ mode = "noise" /\ pc = "both"
    /\ arg = <<L_DevDigits>>
    /\ res.bottleVolumeMl = Undefined
    /\ res2.bottleVolumeMl = Num(<<"1","0","0">>)

(***************************************************************************)
(* Partial date tokens                                                     *)
(***************************************************************************)
\* a month abbreviation (Jan..Dec, Sept), at most one separator and a one-
\* or two-digit number: <<month, separators, number>>, or <<>>
PartialToken(date) ==
    LET s == trim(date.v)
        a == RunEnd(s, 1, LetterSet)
        b == RunEnd(s, a + 1, MonthSeps)
        c == RunEnd(s, b + 1, DigitSet)
    IN  IF /\ date.t = "str"
           /\ MonthNumber(Slice(s, 1, a)) > 0
           /\ b - a \in 0..1
           /\ c - b \in 1..2
           /\ c = Len(s)
        THEN <<Slice(s, 1, a), b - a, Slice(s, b + 1, c)>>
        ELSE <<>>

\* the completed date of a partial token: the year, the month of the
\* abbreviation and the number as the day
CompletedDate(token, year) ==
    Str(year \o <<"-">> \o TwoDigits(MonthNumber(token[1])) \o <<"-">>
          \o padStart2(token[3]))

\* C24: a partial date token, a month abbreviation and a one- or two-digit
\* number such as "OCT 24", is completed to a YYYY-MM-DD date whose year is
\* the first 20xx year of the surrounding OCR text, or the current year
\* when the text has none.
C24_PartialDateCompleted ==
    (mode = "date" /\ pc \in {"normalized", "renormalized"}
        /\ PartialToken(arg.date) # <<>>)
      => res = CompletedDate(PartialToken(arg.date),
                             SniffYear(arg.ocrText, arg.currentYear))

\* the tokens that reach the completion: those without a separator, and
\* those with a one-digit number
PartialWithoutYearReading ==
    (mode = "date" /\ pc \in {"normalized", "renormalized"}
        /\ PartialToken(arg.date) # <<>>
        /\ (PartialToken(arg.date)[2] = 0 \/ Len(PartialToken(arg.date)[3]) = 1))
      => res = CompletedDate(PartialToken(arg.date),
                             SniffYear(arg.ocrText, arg.currentYear))

\* "Oct 24" is read as October 2024, whatever the text around it
PartialReadAsMonthYear ==
    /\ mode = "date" /\ pc = "normalized"
    /\ arg.date = Str(<<"O","c","t"," ","2","4">>)
    /\ arg.ocrText # <<>>
    /\ res = Str(<<"2","0","2","4","-","1","0","-","0","1">>)

(***************************************************************************)
(* Character-confusion repair                                              *)
(***************************************************************************)
\* the digit at position i of s has a letter immediately before it and a
\* letter immediately after it
BetweenLetters(s, i) == IsUpper(At(s, i - 1)) /\ IsUpper(At(s, i + 1))

\* the letter a confused digit stands for
LetterFor(c) == IF c = "0" THEN "O" ELSE IF c = "1" THEN "I" ELSE "S"

\* C25: in normalizeBatchToken every 0, 1 or 5 with a letter immediately
\* before it and a letter immediately after it becomes O, I or S, wherever
\* it sits in the letter run, and no digit that is not between two letters
\* is changed.
C25_ConfusionsRepaired ==
    (mode = "batch" /\ pc = "repaired") =>
        /\ Len(res.after) = Len(res.before)
        /\ \A i \in 1..Len(res.before) :
              res.after[i] =
                  IF res.before[i] \in {"0", "1", "5"} /\ BetweenLetters(res.before, i)
                  THEN LetterFor(res.before[i])
                  ELSE res.before[i]

\* no character other than a 0, 1 or 5 between two letters is changed
OnlyBetweenLettersChanged ==
    (mode = "batch" /\ pc = "repaired") =>
        \A i \in 1..Len(res.before) :
            res.after[i] # res.before[i] =>
                /\ res.before[i] \in {"0", "1", "5"}
                /\ BetweenLetters(res.before, i)
                /\ res.after[i] = LetterFor(res.before[i])

\* a zero after the third letter of a run stays a zero
ZeroLeftInRun ==
    /\ mode = "batch" /\ pc = "repaired"
    /\ arg = Str(<<"A","B","A","0","B","2","2","0","9">>)
    /\ res.after = <<"A","B","A","0","B","2","2","0","9">>

(***************************************************************************)
(* Pack-size extraction on label texts of at most MaxPackLines lines.      *)
(* Each line records what a reader takes from it: its pattern and its two  *)
(* numbers in reading order.                                               *)
(***************************************************************************)
PackLine(text, kind, first, second) ==
    [text |-> text, kind |-> kind, first |-> first, second |-> second]
P_TimesUnit  == PackLine(<<"2"," ","x"," ","1","5"," ","T","A","B","S">>, "N x M UNIT", <<"2">>, <<"1","5">>)
P_TimesUnit2 == PackLine(<<"P","a","c","k",":"," ","3","X","4"," ","t","a","b","l","e","t">>, "N x M UNIT", <<"3">>, <<"4">>)
P_UnitTimes  == PackLine(<<"1","0"," ","C","A","P","S"," ","x"," ","3">>, "N UNIT x M", <<"1","0">>, <<"3">>)
P_UnitTimes2 == PackLine(<<"6"," ","T","a","b"," ","X"," ","1","2",".">>, "N UNIT x M", <<"6">>, <<"1","2">>)
P_Lone       == PackLine(<<"2","0"," ","C","A","P","S","U","L","E","S">>, "N UNIT", <<"2","0">>, <<>>)
P_Lone2      == PackLine(<<"e","a","c","h"," ","8"," ","t","a","b","s">>, "N UNIT", <<"8">>, <<>>)
P_Liquid     == PackLine(<<"S","y","r","u","p"," ","2"," ","x"," ","6","0"," ","m","l">>, "none", <<>>, <<>>)
P_Batch      == PackLine(<<"B","a","t","c","h"," ","A","B"," ","1","2","3","4">>, "none", <<>>, <<>>)
PackLines ==
    {P_TimesUnit, P_TimesUnit2, P_UnitTimes, P_UnitTimes2, P_Lone, P_Lone2,
     P_Liquid, P_Batch}

MaxPackLines == 2

\* the text of the lines, one per line
RECURSIVE PackText(_)
PackText(ls) ==
    IF ls = <<>> THEN <<>> ELSE Head(ls).text \o <<"\n">> \o PackText(Tail(ls))

InitPack ==
    /\ mode = "pack"
    /\ pc = "input"
    /\ arg \in UNION {[1..m -> PackLines] : m \in 1..MaxPackLines}
    /\ res = Null
    /\ res2 = Null
    /\ PipelineIdle /\ ScanIdle

CallExtractPackInfo ==
    /\ mode = "pack" /\ pc = "input"
    /\ res' = extractPackInfo(PackText(arg))
    /\ pc' = "extracted"
    /\ UNCHANGED <<mode, arg, res2, pipeVars, calls, scanVars>>

NextPack == CallExtractPackInfo

SpecPack == InitPack /\ [][NextPack]_vars

\* the lines of a kind, in reading order
LinesOfKind(ls, kind) == SelectSeq(ls, LAMBDA l : l.kind = kind)

\* C26: pack-size extraction tries three patterns in fixed priority,
\* wherever they stand in the text: "N x M TAB/CAP" gives slips_count N and
\* tablets_per_slip M; otherwise "N TAB/CAP x M" gives slips_count M and
\* tablets_per_slip N; otherwise a lone "N TAB/CAP" gives slips_count null
\* and tablets_per_slip N; otherwise both are null.
C26_PackPriority ==
    (mode = "pack" /\ pc = "extracted") =>
        res = IF LinesOfKind(arg, "N x M UNIT") # <<>>
              THEN [slipsCount |-> Num(LinesOfKind(arg, "N x M UNIT")[1].first),
                    tabletsPerSlip |-> Num(LinesOfKind(arg, "N x M UNIT")[1].second)]
              ELSE IF LinesOfKind(arg, "N UNIT x M") # <<>>
              THEN [slipsCount |-> Num(LinesOfKind(arg, "N UNIT x M")[1].second),
                    tabletsPerSlip |-> Num(LinesOfKind(arg, "N UNIT x M")[1].first)]
              ELSE IF LinesOfKind(arg, "N UNIT") # <<>>
              THEN [slipsCount |-> Null,
                    tabletsPerSlip |-> Num(LinesOfKind(arg, "N UNIT")[1].first)]
              ELSE [slipsCount |-> Null, tabletsPerSlip |-> Null]

\* a lone count stands before an "N x M" pack, and the pack is read
C26_Witness ==
    /\ mode = "pack" /\ pc = "extracted"
    /\ arg = <<P_Lone, P_TimesUnit>>
    /\ res = [slipsCount |-> Num(<<"2">>), tabletsPerSlip |-> Num(<<"1","5">>)]


\* a parsed vision answer that still holds something once its batch number
\* has been through finalizeBatch: a field of an object, or an item of a list
VisionHasContent(j) ==
    \/ NormalisedFieldPresent(j)
    \/ j.k = "arr" /\ \E i \in 1..Len(j.items) :
                         NotNullish(j.items[i]) /\ j.items[i] # Str(<<>>)

LiquidFieldNames ==
    {"bottle_volume_ml", "bottles_per_pack", "dose_ml", "concentration_mg_per_5ml",
     "concentration_label"}

\* the decided dosage form of the response is one of the liquid forms
DecidedLiquid(fields) ==
    fields.dosage_form # Null /\ fields.dosage_form.v \in LiquidForms

\* C28: when the decided dosage form is not SYRUP, SUSPENSION, SOLUTION or
\* DROPS all five liquid fields are null; when it is, a non-null
\* bottle_volume_ml lies between 30 and 500 and is never the number of a
\* "per N ml" / "each N ml" dose phrase of the text.
C28_LiquidOnlyAndVolumeApart ==
    (mode = "liquid" /\ pc = "answered") =>
        /\ ~DecidedLiquid(res2) => \A f \in LiquidFieldNames : res2[f] = Null
        /\ (DecidedLiquid(res2) /\ res2.bottle_volume_ml # Null) =>
              /\ NumberOf(res2.bottle_volume_ml.v) \in 30..500
              /\ \A i \in 1..Len(arg.parts) :
                    arg.parts[i].per # <<>> =>
                        res2.bottle_volume_ml # Num(arg.parts[i].per)

\* the liquid fields are null unless the form is liquid, and a bottle
\* volume is always in the band
LiquidFieldsForLiquidsOnly ==
    (mode = "liquid" /\ pc = "answered") =>
        /\ ~DecidedLiquid(res2) => \A f \in LiquidFieldNames : res2[f] = Null
        /\ (DecidedLiquid(res2) /\ res2.bottle_volume_ml # Null) =>
              NumberOf(res2.bottle_volume_ml.v) \in 30..500

\* the number of a dose phrase is returned as the bottle volume, before the
\* volume printed on the label
DoseReadAsVolume ==
    /\ mode = "liquid" /\ pc = "answered"
    /\ arg.parts = <<F_Syrup, F_Per50, F_Vol200>>
    /\ res2.dose_ml = Num(<<"5","0">>)
    /\ res2.bottle_volume_ml = Num(<<"5","0">>)


\* C29: the source of a successful scan response is "vision" only when the
\* record is the accepted vision record: a run that went on to OCR, the
\* text model and the regex extractor never reports "vision".
C29_VisionOnlyWhenAccepted ==
    (mode = "scan" /\ pc = "responded" /\ response.success
        /\ response.source = "vision") =>
        /\ extracted._source = "vision"
        /\ extracted.made.ocr = 0 /\ extracted.made.text = 0
        /\ extracted.made.regex = 0

\* a record tagged by extractProductDataFromImages keeps its tag
TaggedSourceKept ==
    (mode = "scan" /\ pc = "responded" /\ response.success
        /\ extracted._source # "undefined") =>
        response.source = extracted._source

\* the text model gave nothing, the record was built by the regex extractor
\* and the merge, and the response reports "vision"
RegexRecordReportedAsVision ==
    /\ mode = "scan" /\ pc = "responded" /\ response.success
    /\ extracted.made.text = 1 /\ extracted.made.regex = 1
    /\ extracted._source = "undefined"
    /\ response.source = "vision"

(***************************************************************************)
(* /api/inventory: POST and PUT served concurrently                        *)
(*                                                                         *)
(* arg holds the bodies of the requests in flight, res the rows of         *)
(* inventoryBatch in id order, each with its inventoryShelfAlloc rows, and *)
(* res2 the position of every request.  A handler runs up to its await of  *)
(* prisma.$transaction in one step and the transaction in another; an      *)
(* absent body member is <<>> and a present one <<value>>.                 *)
(***************************************************************************)
MaxRequests == 3

Shelf(name, qty) == [shelfName |-> name, qty |-> qty]

\* toInt(v): 0 for null, undefined and '', else the integer
toInt(v) == IF v = <<>> THEN 0 ELSE v[1]

\* shelves.reduce((a, s) => a + toInt(s.qty ?? ...), 0)
RECURSIVE ShelfSum(_)
ShelfSum(shelves) ==
    IF shelves = <<>> THEN 0 ELSE toInt(Head(shelves).qty) + ShelfSum(Tail(shelves))

\* extractQty(body): the first qty alias that is a number, else the sum of
\* the shelves, else 0
extractQty(body) ==
    IF body.qty # <<>> THEN body.qty[1]
    ELSE IF body.shelves # <<>> THEN ShelfSum(body.shelves[1])
    ELSE 0

\* validateShelves(totalQty, shelves): the error, "" for null
validateShelves(totalQty, shelves) ==
    IF shelves = <<>> \/ shelves[1] = <<>> THEN "shelf required"
    ELSE IF ShelfSum(shelves[1]) # totalQty THEN "sum"
    ELSE IF \E i \in 1..Len(shelves[1]) : shelves[1][i].shelfName = "" THEN "shelfName"
    ELSE IF \E i \in 1..Len(shelves[1]) : toInt(shelves[1][i].qty) <= 0 THEN "qty"
    ELSE ""

\* the rows written for the shelves of a body
ShelfRows(shelves) ==
    [i \in 1..Len(shelves) |-> [shelfName |-> shelves[i].shelfName,
                                qty |-> toInt(shelves[i].qty)]]

\* found.shelves.reduce((a, s) => a + s.qty, 0)
RECURSIVE RowSum(_)
RowSum(rows) == IF rows = <<>> THEN 0 ELSE Head(rows).qty + RowSum(Tail(rows))

Body(method, name, batchNumber, qty, shelves) ==
    [method |-> method, name |-> name, batchNumber |-> batchNumber, qty |-> qty,
     shelves |-> shelves]

\* the request bodies
RequestBodies ==
    { Body("POST", "Cetamol", "B1", <<2>>, <<<<Shelf("A", <<2>>)>>>>),
      Body("POST", "Cetamol", "B1", <<>>, <<<<Shelf("A", <<1>>), Shelf("B", <<2>>)>>>>),
      Body("POST", "Cetamol", "B2", <<3>>, <<<<Shelf("A", <<2>>)>>>>),
      Body("POST", "Cetamol", "B2", <<2>>, <<<<Shelf("A", <<2>>), Shelf("B", <<>>)>>>>),
      Body("POST", "", "B1", <<1>>, <<<<Shelf("A", <<1>>)>>>>),
      Body("PUT", "", "B1", <<2>>, <<>>),
      Body("PUT", "", "B1", <<3>>, <<<<Shelf("A", <<3>>)>>>>),
      Body("PUT", "", "B1", <<>>, <<<<Shelf("A", <<1>>)>>>>),
      Body("PUT", "", "B1", <<1>>, <<<<Shelf("", <<1>>)>>>>),
      Body("PUT", "", "B2", <<>>, <<>>),
      Body("PUT", "", "", <<2>>, <<>>) }

NoUpdates == [qtyAvailable |-> <<>>, replaceShelves |-> FALSE, newShelves |-> <<>>]
Received == [pc |-> "received", status |-> 0, found |-> 0, foundShelves |-> <<>>,
             updates |-> NoUpdates]

InitInventory ==
    /\ mode = "inventory"
    /\ pc = "serving"
    /\ arg \in [1..MaxRequests -> RequestBodies]
    /\ res = <<>>
    /\ res2 = [i \in 1..MaxRequests |-> Received]
    /\ PipelineIdle /\ ScanIdle

Answer(i, status) ==
    res2' = [res2 EXCEPT ![i] = [@ EXCEPT !.pc = "answered", !.status = status]]

\* POST up to the transaction: name and batch number, then validateShelves
PostValidates(i) ==
    /\ mode = "inventory" /\ arg[i].method = "POST" /\ res2[i].pc = "received"
    /\ IF arg[i].name = "" \/ arg[i].batchNumber = "" THEN Answer(i, 400)
       ELSE IF validateShelves(extractQty(arg[i]), arg[i].shelves) # "" THEN Answer(i, 400)
       ELSE res2' = [res2 EXCEPT ![i] = [@ EXCEPT !.pc = "validated"]]
    /\ UNCHANGED <<mode, pc, arg, res, pipeVars, calls, scanVars>>

\* the transaction of POST: the batch and its shelf allocations
PostCommits(i) ==
    /\ mode = "inventory" /\ arg[i].method = "POST" /\ res2[i].pc = "validated"
    /\ res' = Append(res, [batchNo |-> arg[i].batchNumber,
                           qtyAvailable |-> extractQty(arg[i]),
                           shelves |-> ShelfRows(arg[i].shelves[1])])
    /\ Answer(i, 201)
    /\ UNCHANGED <<mode, pc, arg, pipeVars, calls, scanVars>>

\* the updates PUT prepares from the body
PutUpdates(body) ==
    IF body.shelves # <<>>
    THEN [qtyAvailable |-> <<extractQty(body)>>, replaceShelves |-> TRUE,
          newShelves |-> ShelfRows(body.shelves[1])]
    ELSE IF body.qty # <<>>
    THEN [NoUpdates EXCEPT !.qtyAvailable = <<extractQty(body)>>]
    ELSE NoUpdates

\* the 400 answers of PUT once the row is found
PutRejected(body, foundShelves) ==
    IF body.shelves # <<>>
    THEN validateShelves(extractQty(body), body.shelves) # ""
    ELSE body.qty # <<>> /\ RowSum(foundShelves) # extractQty(body)

\* PUT up to the transaction: findFirst by batch number (any of the rows
\* with that number), then the checks against the row as it was read
PutFinds(i) ==
    /\ mode = "inventory" /\ arg[i].method = "PUT" /\ res2[i].pc = "received"
    /\ IF arg[i].batchNumber = "" THEN Answer(i, 400)
       ELSE IF \A id \in 1..Len(res) : res[id].batchNo # arg[i].batchNumber
       THEN Answer(i, 404)
       ELSE \E id \in 1..Len(res) :
               /\ res[id].batchNo = arg[i].batchNumber
               /\ IF PutRejected(arg[i], res[id].shelves) THEN Answer(i, 400)
                  ELSE res2' = [res2 EXCEPT ![i] =
                                   [@ EXCEPT !.pc = "found", !.found = id,
                                             !.foundShelves = res[id].shelves,
                                             !.updates = PutUpdates(arg[i])]]
    /\ UNCHANGED <<mode, pc, arg, res, pipeVars, calls, scanVars>>

\* the transaction of PUT: the batch update, then the shelves replaced
PutCommits(i) ==
    /\ mode = "inventory" /\ arg[i].method = "PUT" /\ res2[i].pc = "found"
    /\ res' = [res EXCEPT ![res2[i].found] =
                  [@ EXCEPT !.qtyAvailable =
                                IF res2[i].updates.qtyAvailable # <<>>
                                THEN res2[i].updates.qtyAvailable[1] ELSE @,
                            !.shelves =
                                IF res2[i].updates.replaceShelves
                                THEN res2[i].updates.newShelves ELSE @]]
    /\ Answer(i, 200)
    /\ UNCHANGED <<mode, pc, arg, pipeVars, calls, scanVars>>

\* the transaction throws: nothing is written and the catch answers 500
TransactionFails(i) ==
    /\ mode = "inventory" /\ res2[i].pc \in {"validated", "found"}
    /\ Answer(i, 500)
    /\ UNCHANGED <<mode, pc, arg, res, pipeVars, calls, scanVars>>

NextInventory ==
    \E i \in 1..MaxRequests :
        \/ PostValidates(i) \/ PostCommits(i)
        \/ PutFinds(i) \/ PutCommits(i)
        \/ TransactionFails(i)

SpecInventory == InitInventory /\ [][NextInventory]_vars

\* every batch's qtyAvailable is the sum of its shelf allocations
StockConsistent(rows) ==
    \A id \in 1..Len(rows) : rows[id].qtyAvailable = RowSum(rows[id].shelves)

\* C30: after any sequence and any interleaving of successful POST and PUT
\* requests every batch's qtyAvailable equals the sum of the quantities of
\* its shelf allocations (a PUT that sets qty without shelves writes it only
\* when it equals the shelves' total at the time of the write).
C30_StockConsistent ==
    mode = "inventory" => StockConsistent(res)

\* the qty a PUT without shelves writes is the total of the shelves stored
\* when it writes
QtyEqualsTotalAtWrite ==
    [][\A i \in 1..MaxRequests :
          (mode = "inventory" /\ arg[i].method = "PUT" /\ res2[i].pc = "found"
              /\ res2'[i].status = 200 /\ ~res2[i].updates.replaceShelves
              /\ res2[i].updates.qtyAvailable # <<>>)
          => res2[i].updates.qtyAvailable[1] = RowSum(res[res2[i].found].shelves)]_vars

\* a step keeps the stock consistent whenever the PUT that writes in it
\* found the shelves that are still stored
ConsistentWithoutStaleRead ==
    [][(mode = "inventory" /\ StockConsistent(res)
          /\ \A i \in 1..MaxRequests :
                (res2[i].pc = "found" /\ res2'[i].status = 200)
                    => res2[i].foundShelves = res[res2[i].found].shelves)
        => StockConsistent(res')]_vars

\* a PUT of qty alone has written the total it checked before another PUT
\* replaced the shelves
StaleQtyWritten ==
    /\ mode = "inventory"
    /\ \A i \in 1..MaxRequests : res2[i].status \in {200, 201}
    /\ Len(res) = 1
    /\ res[1].qtyAvailable = 2 /\ RowSum(res[1].shelves) = 3

=============================================================================
